---- MODULE Spec2Model ----
(***************************************************************************)
(* Verification model of the SLA / escalation core of the help-desk        *)
(* server: the Ticket model (version hook, slaStatus virtual), the ticket  *)
(* routes (POST, PATCH, DELETE), the comment route's ticket touch, the     *)
(* SLAService (scans, escalation, due-date policy) and the notification    *)
(* service calls those make.                                               *)
(*                                                                         *)
(* Time is counted in minutes.  A nullable Date is NoDate when null.       *)
(***************************************************************************)
EXTENDS Integers, Sequences, FiniteSets, TLC

VARIABLES
    now,            \* the wall clock (Date.now()), in minutes
    tickets,        \* the tickets collection: id -> stored document
    sessions,       \* in-flight requests / service calls, each with the document it loaded
    notifications,  \* the notifications collection, in insertion order
    hist,           \* observation of what the operations did (not program state)
    scan,           \* the running checkSLAStatus pass
    pin,            \* inputs of the pure functions under check
    pout,           \* result of the last pure-function call
    wf,             \* the workflow service: rule registry and the running executeRules call
    esc             \* the running checkEscalations pass

vars == <<now, tickets, sessions, notifications, hist, scan, pin, pout, wf, esc>>

-----------------------------------------------------------------------------
(* Units and program constants *)

Hour == 60

NoDate == -1

NULL == "null"

Priorities == {"low", "medium", "high", "urgent"}

Statuses == {"open", "in_progress", "resolved", "closed", "cancelled"}

\* schema default of sla.responseTime, in hours
DefaultResponseTime == 24

\* schema default of sla.resolutionTime, in hours
DefaultResolutionTime == 72

-----------------------------------------------------------------------------
(* SLA policy: SLAService.calculateSLADueDate *)

\* the slaHours object literal
slaHours == [urgent |-> 2, high |-> 8, medium |-> 24, low |-> 72]

\* Property names every object literal inherits from Object.prototype: a
\* lookup slaHours[p] with one of these yields a function or object (truthy,
\* not a number) rather than undefined.
ObjectPrototypeKeys ==
    {"constructor", "toString", "valueOf", "hasOwnProperty", "__proto__"}

\* slaHours[priority]: a number for an own key, an inherited (truthy,
\* non-numeric) value for a prototype key, undefined otherwise.
SlaLookup(priority) ==
    IF priority \in DOMAIN slaHours
    THEN [kind |-> "number", n |-> slaHours[priority]]
    ELSE IF priority \in ObjectPrototypeKeys
         THEN [kind |-> "inherited", n |-> 0]
         ELSE [kind |-> "undefined", n |-> 0]

\* new Date(createdAt.getTime() + hours * 60 * 60 * 1000) with
\* hours = slaHours[priority] || slaHours['medium'];  a non-numeric hours
\* gives NaN, that is an Invalid Date (valid = FALSE).
calculateSLADueDate(priority, createdAt) ==
    LET found == SlaLookup(priority)
        hours == IF found.kind = "undefined"
                 THEN [kind |-> "number", n |-> slaHours["medium"]]
                 ELSE found
    IN  IF hours.kind = "number"
        THEN [valid |-> TRUE, time |-> createdAt + hours.n * Hour]
        ELSE [valid |-> FALSE, time |-> 0]

-----------------------------------------------------------------------------
(* Ticket virtual slaStatus *)

\* slaStatus with the resolution deadline tested before the response budget
slaStatusDeadlineFirst(t, clock) ==
    IF t.status = "resolved" \/ t.status = "closed"
    THEN "completed"
    ELSE IF clock > t.dueDate
    THEN "resolution_breach"
    ELSE IF t.firstResponseAt # NoDate
            /\ clock > t.firstResponseAt + t.responseTime * Hour
    THEN "response_breach"
    ELSE IF clock > t.dueDate - 24 * Hour
    THEN "warning"
    ELSE "on_time"

slaStatus(t, clock) ==
    IF t.status = "resolved" \/ t.status = "closed"
    THEN "completed"
    ELSE IF t.firstResponseAt # NoDate
            /\ clock > t.firstResponseAt + t.responseTime * Hour
    THEN "response_breach"
    ELSE IF clock > t.dueDate
    THEN "resolution_breach"
    ELSE IF clock > t.dueDate - 24 * Hour
    THEN "warning"
    ELSE "on_time"

-----------------------------------------------------------------------------
(* Values the variables of an idle part of the system hold *)

Tickets == {1, 2}

\* a session is one in-flight call: a request of a signed-in user, named by
\* the user, or a call of a service made by the server itself ("system"; the
\* escalateTicket calls of the hourly checkEscalations job run as "hourly")
Sessions == {"user1", "admin1", "system", "hourly"}

NoTicket ==
    [exists |-> FALSE, status |-> "open", priority |-> "medium",
     category |-> "general", createdBy |-> NULL, assignedTo |-> NULL,
     createdAt |-> NoDate, updatedAt |-> NoDate, dueDate |-> NoDate,
     firstResponseAt |-> NoDate, resolvedAt |-> NoDate,
     responseTime |-> DefaultResponseTime, version |-> 0,
     internalNotes |-> <<>>, tags |-> <<>>]

NoBody ==
    [status |-> NULL, priority |-> NULL, assignedTo |-> NULL, version |-> 0]

IdleSession ==
    [pc |-> "idle", user |-> NULL, target |-> 0, doc |-> NoTicket,
     body |-> NoBody, arg |-> NULL, counted |-> FALSE,
     ticket |-> 0, readVersion |-> -1, readAt |-> 0]

NoPatch ==
    [ticket |-> 0, supplied |-> 0, stored |-> 0, outcome |-> "none",
     changed |-> FALSE]

NoHist ==
    [mutations |-> [t \in Tickets |-> 0],
     priorityChanged |-> [t \in Tickets |-> FALSE],
     createdWith |-> [t \in Tickets |-> NULL],
     applied |-> {},
     lastPatch |-> NoPatch,
     firings |-> {},
     escalated |-> {},
     selected |-> {},
     handled |-> {},
     scans |-> 0,
     seq |-> 0,
     ticks |-> 0,
     ops |-> 0]

NoScan == [pc |-> "idle", at |-> 0, queue |-> <<>>, n |-> 0]

\* no checkEscalations pass running; before and mark are what an observer
\* noted when the last pass began: the stored tickets and the number of
\* notifications
NoEsc ==
    [pc |-> "idle", at |-> 0, queue |-> <<>>, n |-> 0, busy |-> FALSE,
     before |-> [t \in Tickets |-> NoTicket], mark |-> 0]

NoInput ==
    [priority |-> "medium", createdAt |-> 0, status |-> "open",
     firstResponseAt |-> NoDate, responseTime |-> DefaultResponseTime,
     dueDate |-> 0]

NoOutput ==
    [fn |-> "none", at |-> 0, status |-> "none",
     due |-> [valid |-> FALSE, time |-> 0]]

\* a rule of the registry.  kind names the closures of a default rule and is
\* "custom" for a rule createCustomRule built from conditions and actions;
\* trigger is NULL for a rule that has no trigger property.
DefaultRule(name) ==
    [name |-> name, kind |-> name, trigger |-> NULL,
     conditions |-> <<>>, actions |-> <<>>, enabled |-> TRUE]

\* WorkflowService.initializeDefaultRules: the Map in insertion order
DefaultRules ==
    << DefaultRule("auto_assign_technical"),
       DefaultRule("escalate_high_priority"),
       DefaultRule("auto_close_inactive"),
       DefaultRule("auto_close_resolved") >>

\* the workflow service after its constructor, no executeRules call running
NoWf ==
    [rules |-> DefaultRules, pc |-> "idle", i |-> 0, ticket |-> 0,
     doc |-> NoTicket, start |-> NoTicket, trigger |-> NULL, ran |-> <<>>,
     threwAt |-> 0, calls |-> 0]

-----------------------------------------------------------------------------
(* SpecPure: the pure functions, applied to inputs drawn from bounded sets *)

MaxPureTicks == 2

PureStart == 100 * Hour

\* priorities handed to calculateSLADueDate: the four of the enum, names the
\* enum does not know, and names an object literal inherits
PriorityInputs ==
    Priorities \cup {"critical", "", "constructor", "toString"}

PureDueDates ==
    { PureStart + d : d \in {-60, 0, 30, 24 * Hour, 24 * Hour + 30, 48 * Hour} }

PureFirstResponses ==
    {NoDate} \cup { PureStart - d : d \in {60, 24 * Hour, 24 * Hour + 30} }

PureInit ==
    /\ now = PureStart
    /\ pin \in [priority : PriorityInputs, createdAt : {0, 90},
                status : Statuses, firstResponseAt : PureFirstResponses,
                responseTime : {1, DefaultResponseTime},
                dueDate : PureDueDates]
    /\ pout = NoOutput
    /\ wf = NoWf
    /\ esc = NoEsc
    /\ tickets = [t \in Tickets |-> NoTicket]
    /\ sessions = [s \in Sessions |-> IdleSession]
    /\ notifications = <<>>
    /\ hist = NoHist
    /\ scan = NoScan

\* time passes between two reads of the virtual
PureTick ==
    /\ now < PureStart + MaxPureTicks * 30
    /\ now' = now + 30
    /\ UNCHANGED <<tickets, sessions, notifications, hist, scan, pin, pout, wf, esc>>

\* ticket.slaStatus read at the current time
ReadSlaStatus ==
    /\ pout' = [NoOutput EXCEPT !.fn = "slaStatus", !.at = now,
                                !.status = slaStatus(pin, now)]
    /\ UNCHANGED <<now, tickets, sessions, notifications, hist, scan, pin, wf, esc>>

\* slaService.calculateSLADueDate(priority, createdAt)
CallCalculateSLADueDate ==
    /\ pout' = [NoOutput EXCEPT !.fn = "calculateSLADueDate", !.at = now,
                 !.due = calculateSLADueDate(pin.priority, pin.createdAt)]
    /\ UNCHANGED <<now, tickets, sessions, notifications, hist, scan, pin, wf, esc>>

PureNext ==
    \/ PureTick
    \/ ReadSlaStatus
    \/ CallCalculateSLADueDate

SpecPure == PureInit /\ [][PureNext]_vars

-----------------------------------------------------------------------------
(* Claims about the pure functions, checked under SpecPure *)

\* the resolution budget the SLA policy states, in hours
StatedBudget(p) ==
    CASE p = "urgent" -> 2
      [] p = "high" -> 8
      [] p = "medium" -> 24
      [] p = "low" -> 72
      [] OTHER -> 24

\* C6: calculateSLADueDate(priority, createdAt) is createdAt plus 2h / 8h /
\* 24h / 72h for urgent / high / medium / low and plus 24h for every
\* priority it does not recognise.
C6_DueDateIsCreatedPlusBudget ==
    pout.fn = "calculateSLADueDate" =>
        /\ pout.due.valid
        /\ pout.due.time - pin.createdAt = StatedBudget(pin.priority) * Hour

\* the classifier as the SLA monitor section states it, first match wins
StatedSlaStatus(status, firstResponseAt, responseBudget, dueDate, clock) ==
    CASE status \in {"resolved", "closed"} -> "completed"
      [] status \notin {"resolved", "closed"}
         /\ firstResponseAt # NoDate
         /\ clock > firstResponseAt + responseBudget * Hour -> "response_breach"
      [] status \notin {"resolved", "closed"}
         /\ ~(firstResponseAt # NoDate
              /\ clock > firstResponseAt + responseBudget * Hour)
         /\ clock > dueDate -> "resolution_breach"
      [] status \notin {"resolved", "closed"}
         /\ ~(firstResponseAt # NoDate
              /\ clock > firstResponseAt + responseBudget * Hour)
         /\ clock <= dueDate
         /\ clock > dueDate - 24 * Hour -> "warning"
      [] OTHER -> "on_time"

\* C7: slaStatus is the priority-ordered classifier completed /
\* response_breach / resolution_breach / warning / on_time, the first
\* matching condition deciding; an open ticket without first response is
\* resolution_breach at dueDate = now - 1h, warning at now + 30m and on_time
\* at now + 48h.
C7_SlaStatusIsOrderedClassifier ==
    pout.fn = "slaStatus" =>
        /\ pout.status = StatedSlaStatus(pin.status, pin.firstResponseAt,
                                         pin.responseTime, pin.dueDate, pout.at)
        /\ (pin.status = "open" /\ pin.firstResponseAt = NoDate) =>
              /\ (pin.dueDate = pout.at - 1 * Hour =>
                      pout.status = "resolution_breach")
              /\ (pin.dueDate = pout.at + 30 => pout.status = "warning")
              /\ (pin.dueDate = pout.at + 48 * Hour => pout.status = "on_time")

\* a read where an earlier condition overrides a later one: the response
\* budget is exceeded on a ticket whose due date has passed as well
C7_Witness ==
    /\ pout.fn = "slaStatus"
    /\ pin.status = "in_progress"
    /\ pin.firstResponseAt # NoDate
    /\ pout.at > pin.firstResponseAt + pin.responseTime * Hour
    /\ pout.at > pin.dueDate
    /\ pout.status = "response_breach"

\* C8: a ticket in a terminal state, closed or cancelled, reads slaStatus
\* completed at every time, whatever its dueDate and firstResponseAt.
C8_TerminalIsCompleted ==
    (pout.fn = "slaStatus" /\ pin.status \in {"closed", "cancelled"}) =>
        pout.status = "completed"

-----------------------------------------------------------------------------
(* Spec: the ticket life cycle.  Requests and service calls run as         *)
(* sessions; a session that has loaded a document (an await on the store   *)
(* lies between its load and its write) interleaves with the others.       *)

MaxOps == 5

MaxTicks == 1

Users == {"user1", "agent1", "admin1"}

Role(u) ==
    CASE u = "user1" -> "user"
      [] u = "agent1" -> "agent"
      [] u = "admin1" -> "admin"

ActiveAgents == {u \in Users : Role(u) = "agent"}

ActiveAdmins == {u \in Users : Role(u) = "admin"}

\* users who file tickets in this specification
Creators == {"user1"}

\* priority field of a POST body; NULL when the body has none
CreatePriorities == {NULL, "low", "urgent"}

Clients == Sessions \ {"system", "hourly"}

\* PATCH bodies without the version; NULL when the body leaves the field out
PatchBodies ==
    { [NoBody EXCEPT !.status = "resolved"],
      [NoBody EXCEPT !.status = "cancelled"],
      [NoBody EXCEPT !.priority = "high"],
      [NoBody EXCEPT !.assignedTo = "agent1"] }

\* newPriority arguments of updateTicketSLA
UpdatePriorities == {"low", "urgent", "critical"}

\* amounts of time that pass between two operations
TickSteps == {5 * Hour, 73 * Hour}

\* middleware canAccessTicket
canAccessTicket(t, u) ==
    \/ Role(u) = "admin"
    \/ Role(u) = "agent" /\ (t.assignedTo = NULL \/ t.assignedTo = u)
    \/ Role(u) = "user" /\ t.createdBy = u

\* ticketSchema.methods.canBeModified
canBeModified(t, userRole, userId) ==
    \/ userRole = "admin"
    \/ userRole = "agent" /\ (t.assignedTo = userId \/ t.assignedTo = NULL)
    \/ userRole = "user" /\ t.createdBy = userId /\ t.status = "open"

\* ticketSchema.pre('save'): the version a save of a loaded document writes
PreSaveVersion(doc, isModified) ==
    IF isModified THEN doc.version + 1 ELSE doc.version

\* notificationService.createNotification: the stored record
Notification(userId, type, ticketId) ==
    [user |-> userId, type |-> type, ticket |-> ticketId, createdAt |-> now]

\* the records one call creates for a list of recipients, in order
RECURSIVE NotifyEach(_, _, _)
NotifyEach(recipients, type, ticketId) ==
    IF recipients = <<>> THEN <<>>
    ELSE <<Notification(Head(recipients), type, ticketId)>>
         \o NotifyEach(Tail(recipients), type, ticketId)

\* a set of users as the list User.find returns
RECURSIVE SeqOf(_)
SeqOf(S) ==
    IF S = {} THEN <<>>
    ELSE LET x == CHOOSE y \in S : TRUE IN <<x>> \o SeqOf(S \ {x})

Idle(s) == sessions[s].pc = "idle"

\* a finished request: what the caller read stays with the caller
Done(session) ==
    [IdleSession EXCEPT !.ticket = session.ticket,
                        !.readVersion = session.readVersion,
                        !.readAt = session.readAt]

\* a session that has loaded ticket t for operation pc
Loaded(session, pc, u, t, arg) ==
    [session EXCEPT !.pc = pc, !.user = u, !.target = t,
                    !.doc = tickets[t], !.arg = arg, !.counted = FALSE]

Budget == hist.ops < MaxOps

Op(h) == [h EXCEPT !.ops = @ + 1]

Init ==
    /\ now = 0
    /\ tickets = [t \in Tickets |-> NoTicket]
    /\ sessions = [s \in Sessions |-> IdleSession]
    /\ notifications = <<>>
    /\ hist = NoHist
    /\ scan = NoScan
    /\ pin = NoInput
    /\ pout = NoOutput
    /\ wf = NoWf
    /\ esc = NoEsc

\* the wall clock moves on
Tick(d) ==
    /\ hist.ticks < MaxTicks
    /\ now' = now + d
    /\ hist' = [hist EXCEPT !.ticks = @ + 1]
    /\ UNCHANGED <<tickets, sessions, notifications, scan, pin, pout, wf, esc>>

\* POST /api/tickets
CreateTicket(u, t, priority) ==
    /\ Idle(u) /\ Budget
    /\ ~tickets[t].exists
    /\ \A t2 \in Tickets : t2 < t => tickets[t2].exists
    /\ tickets' = [tickets EXCEPT ![t] =
          [NoTicket EXCEPT
              !.exists = TRUE,
              !.status = "open",
              !.priority = IF priority = NULL THEN "medium" ELSE priority,
              !.createdBy = u,
              !.createdAt = now,
              !.updatedAt = now,
              !.dueDate = now + DefaultResolutionTime * Hour,
              !.version = 0]]
    /\ notifications' = notifications
          \o <<Notification(u, "ticket_created", t)>>
          \o NotifyEach(SeqOf(ActiveAgents), "ticket_created", t)
    /\ hist' = [Op(hist) EXCEPT !.createdWith[t] = priority]
    /\ UNCHANGED <<now, sessions, scan, pin, pout, wf, esc>>

\* GET /api/tickets/:id : the caller learns the ticket and its version
ReadTicket(u, t) ==
    /\ Idle(u) /\ Budget
    /\ tickets[t].exists
    /\ canAccessTicket(tickets[t], u)
    /\ sessions' = [sessions EXCEPT ![u].ticket = t,
                                    ![u].readVersion = tickets[t].version,
                                    ![u].readAt = hist.seq + 1]
    /\ hist' = [Op(hist) EXCEPT !.seq = @ + 1]
    /\ UNCHANGED <<now, tickets, notifications, scan, pin, pout, wf, esc>>

\* PATCH /api/tickets/:id, the canAccessTicket middleware: the ticket is
\* loaded into req.ticket; the body carries the version the caller last read
PatchLoad(u, fields) ==
    /\ Idle(u) /\ Budget
    /\ sessions[u].ticket \in Tickets
    /\ sessions[u].readVersion >= 0
    /\ LET t == sessions[u].ticket
           body == [fields EXCEPT !.version = sessions[u].readVersion]
       IN
       /\ tickets[t].exists
       /\ canAccessTicket(tickets[t], u)
       /\ sessions' = [sessions EXCEPT ![u] =
             [Loaded(sessions[u], "patch", u, t, NULL) EXCEPT !.body = body]]
    /\ hist' = Op(hist)
    /\ UNCHANGED <<now, tickets, notifications, scan, pin, pout, wf, esc>>

\* the update document the PATCH handler builds from the body and req.ticket
PatchUpdate(stored, doc, body) ==
    LET statusChanges == body.status # NULL /\ body.status # doc.status
        s1 == IF body.status # NULL
              THEN [stored EXCEPT !.status = body.status] ELSE stored
        s2 == IF body.priority # NULL
              THEN [s1 EXCEPT !.priority = body.priority] ELSE s1
        s3 == IF body.assignedTo # NULL
              THEN [s2 EXCEPT !.assignedTo = body.assignedTo] ELSE s2
        s4 == IF statusChanges
              THEN [s3 EXCEPT !.firstResponseAt =
                        IF doc.firstResponseAt # NoDate
                        THEN doc.firstResponseAt ELSE now]
              ELSE s3
        s5 == IF statusChanges /\ body.status \in {"resolved", "closed"}
              THEN [s4 EXCEPT !.resolvedAt = now] ELSE s4
    IN  [s5 EXCEPT !.updatedAt = now]

\* the optimistic locking check of the PATCH handler
VersionMatches(doc, body) == doc.version = body.version

\* PATCH /api/tickets/:id, the handler: permission check, version check
\* against req.ticket, Ticket.findByIdAndUpdate
PatchHandle(s) ==
    /\ sessions[s].pc = "patch"
    /\ LET t == sessions[s].target
           doc == sessions[s].doc
           body == sessions[s].body
           u == sessions[s].user
           stored == tickets[t]
       IN
       IF ~canBeModified(doc, Role(u), u)
       THEN \* 403
            /\ UNCHANGED <<tickets, hist>>
       ELSE IF ~VersionMatches(doc, body)
       THEN \* 409
            /\ hist' = [hist EXCEPT !.lastPatch =
                  [ticket |-> t, supplied |-> body.version,
                   stored |-> stored.version, outcome |-> "conflict",
                   changed |-> FALSE]]
            /\ UNCHANGED tickets
       ELSE \* 200
            /\ tickets' = [tickets EXCEPT ![t] = PatchUpdate(stored, doc, body)]
            /\ hist' = [hist EXCEPT
                  !.seq = @ + 1,
                  !.mutations[t] = @ + 1,
                  !.priorityChanged[t] =
                      @ \/ (body.priority # NULL
                            /\ body.priority # stored.priority),
                  !.applied = @ \cup
                      {[session |-> s, ticket |-> t, version |-> body.version,
                        readAt |-> sessions[s].readAt,
                        appliedAt |-> hist.seq + 1]},
                  !.lastPatch =
                      [ticket |-> t, supplied |-> body.version,
                       stored |-> stored.version, outcome |-> "applied",
                       changed |-> TRUE]]
    /\ sessions' = [sessions EXCEPT ![s] = Done(sessions[s])]
    /\ UNCHANGED <<now, notifications, scan, pin, pout, wf, esc>>


\* POST /api/comments up to the comment's save: the ticket is loaded and
\* the access rules of the route are applied
CommentLoad(u, t) ==
    /\ Idle(u) /\ Budget
    /\ tickets[t].exists
    /\ ~(Role(u) = "user" /\ tickets[t].createdBy # u)
    /\ ~(Role(u) = "agent" /\ tickets[t].assignedTo # NULL
                           /\ tickets[t].assignedTo # u)
    /\ sessions' = [sessions EXCEPT ![u] = Loaded(sessions[u], "comment", u, t, NULL)]
    /\ hist' = Op(hist)
    /\ UNCHANGED <<now, tickets, notifications, scan, pin, pout, wf, esc>>

\* watchers of a ticket: the creator, then the assignee if there is one
Watchers(doc) ==
    <<doc.createdBy>>
    \o (IF doc.assignedTo # NULL THEN <<doc.assignedTo>> ELSE <<>>)

\* [...new Set(watchers)] over ObjectId objects: a Set keeps objects apart by
\* identity, and every id here is an object of its own, so nothing is dropped
UniqueWatchers(watchers) == watchers

\* recipients of notifyCommentAdded: the unique watchers without the commenter
CommentWatchers(doc, commenter) ==
    SelectSeq(UniqueWatchers(Watchers(doc)), LAMBDA id : id # commenter)

\* POST /api/comments, the rest: ticket.updatedAt = new Date(), ticket.save()
\* (the document is modified, the clock having moved past the loaded
\* updatedAt), notifyCommentAdded
CommentSave(s) ==
    /\ sessions[s].pc = "comment"
    /\ LET t == sessions[s].target
           doc == sessions[s].doc
       IN
       /\ tickets' = [tickets EXCEPT ![t].updatedAt = now,
                                     ![t].version = PreSaveVersion(doc, TRUE)]
       /\ notifications' = notifications
             \o NotifyEach(CommentWatchers(doc, sessions[s].user),
                           "comment_added", t)
       /\ hist' = [hist EXCEPT !.mutations[t] = @ + 1]
    /\ sessions' = [sessions EXCEPT ![s] = Done(sessions[s])]
    /\ UNCHANGED <<now, scan, pin, pout, wf, esc>>

\* DELETE /api/tickets/:id up to the save: authorize('admin'), findById
CancelLoad(u, t) ==
    /\ Idle(u) /\ Budget
    /\ Role(u) = "admin"
    /\ tickets[t].exists
    /\ sessions' = [sessions EXCEPT ![u] = Loaded(sessions[u], "cancel", u, t, NULL)]
    /\ hist' = Op(hist)
    /\ UNCHANGED <<now, tickets, notifications, scan, pin, pout, wf, esc>>

\* DELETE /api/tickets/:id, the rest: status = 'cancelled', ticket.save()
CancelSave(s) ==
    /\ sessions[s].pc = "cancel"
    /\ LET t == sessions[s].target
           doc == sessions[s].doc
           isModified == doc.status # "cancelled"
       IN
       IF isModified
       THEN /\ tickets' = [tickets EXCEPT ![t].status = "cancelled",
                                          ![t].updatedAt = now,
                                          ![t].version = PreSaveVersion(doc, TRUE)]
            /\ hist' = [hist EXCEPT !.mutations[t] = @ + 1]
       ELSE UNCHANGED <<tickets, hist>>
    /\ sessions' = [sessions EXCEPT ![s] = Done(sessions[s])]
    /\ UNCHANGED <<now, notifications, scan, pin, pout, wf, esc>>

\* SLAService.updateTicketSLA(ticketId, newPriority) up to the save
UpdateSLALoad(s, t, newPriority) ==
    /\ Idle(s) /\ Budget
    /\ tickets[t].exists
    /\ sessions' = [sessions EXCEPT ![s] =
                        Loaded(sessions[s], "update_sla", NULL, t, newPriority)]
    /\ hist' = Op(hist)
    /\ UNCHANGED <<now, tickets, notifications, scan, pin, pout, wf, esc>>

\* SLAService.updateTicketSLA, the rest: the due date is recomputed from the
\* ticket's createdAt, priority and dueDate are assigned, ticket.save()
\* (which validates: a priority outside the enum or an invalid date throws)
UpdateSLASave(s) ==
    /\ sessions[s].pc = "update_sla"
    /\ LET t == sessions[s].target
           doc == sessions[s].doc
           newPriority == sessions[s].arg
           newDueDate == calculateSLADueDate(newPriority, doc.createdAt)
           isValid == newPriority \in Priorities /\ newDueDate.valid
           dueModified == newDueDate.time # doc.dueDate
           priorityModified == newPriority # doc.priority
       IN
       IF isValid /\ (dueModified \/ priorityModified)
       THEN /\ tickets' = [tickets EXCEPT
                  ![t].dueDate = IF dueModified THEN newDueDate.time ELSE @,
                  ![t].priority = IF priorityModified THEN newPriority ELSE @,
                  ![t].updatedAt = now,
                  ![t].version = PreSaveVersion(doc, TRUE)]
            /\ hist' = [hist EXCEPT
                  !.mutations[t] = @ + 1,
                  !.priorityChanged[t] =
                      @ \/ newPriority # tickets[t].priority]
       ELSE UNCHANGED <<tickets, hist>>
    /\ sessions' = [sessions EXCEPT ![s] = Done(sessions[s])]
    /\ UNCHANGED <<now, notifications, scan, pin, pout, wf, esc>>

-----------------------------------------------------------------------------
(* The queries of the monitor and the escalation action *)

Live == {"open", "in_progress"}

\* checkSLAStatus: tickets approaching their deadline
WarningQuery(t, clock) ==
    /\ t.exists
    /\ t.status \in Live
    /\ t.dueDate >= clock + 1 * Hour
    /\ t.dueDate <= clock + 2 * Hour

\* checkSLAStatus: tickets that have breached
BreachQuery(t, clock) ==
    /\ t.exists
    /\ t.status \in Live
    /\ t.dueDate < clock

\* the unassigned query without its assignedTo filter
UnassignedQueryAnyAssignee(t, clock) ==
    /\ t.exists
    /\ t.status = "open"
    /\ t.createdAt < clock - 24 * Hour

\* checkEscalations: open, unassigned, older than 24 hours
UnassignedQuery(t, clock) ==
    /\ t.exists
    /\ t.status = "open"
    /\ t.assignedTo = NULL
    /\ t.createdAt < clock - 24 * Hour

\* checkEscalations: high priority, not updated for 4 hours
StaleHighPriorityQuery(t, clock) ==
    /\ t.exists
    /\ t.status \in Live
    /\ t.priority \in {"high", "urgent"}
    /\ t.updatedAt < clock - 4 * Hour

\* the note escalateTicket pushes; addedBy null marks the system
EscalationNote == [addedBy |-> NULL, addedAt |-> now]

\* escalateTicket is entered with a document one of the checkEscalations
\* queries returned
EscalateLoad(s, t) ==
    /\ Idle(s) /\ Budget
    /\ UnassignedQuery(tickets[t], now) \/ StaleHighPriorityQuery(tickets[t], now)
    /\ sessions' = [sessions EXCEPT ![s] =
                        Loaded(sessions[s], "esc_priority", NULL, t, NULL)]
    /\ hist' = Op(hist)
    /\ UNCHANGED <<now, tickets, notifications, scan, pin, pout, wf, esc>>

\* escalateTicket: if (ticket.priority !== 'urgent') { priority = 'urgent'; save }
EscalatePriority(s) ==
    /\ sessions[s].pc = "esc_priority"
    /\ LET t == sessions[s].target
           doc == sessions[s].doc
       IN
       IF doc.priority # "urgent"
       THEN /\ tickets' = [tickets EXCEPT ![t].priority = "urgent",
                                          ![t].updatedAt = now,
                                          ![t].version = PreSaveVersion(doc, TRUE)]
            /\ sessions' = [sessions EXCEPT
                  ![s].pc = "esc_note",
                  ![s].counted = TRUE,
                  ![s].doc = [doc EXCEPT !.priority = "urgent",
                                         !.updatedAt = now,
                                         !.version = PreSaveVersion(doc, TRUE)]]
            /\ hist' = [hist EXCEPT
                  !.mutations[t] = @ + 1,
                  !.priorityChanged[t] = @ \/ tickets[t].priority # "urgent"]
       ELSE /\ sessions' = [sessions EXCEPT ![s].pc = "esc_note"]
            /\ UNCHANGED <<tickets, hist>>
    /\ UNCHANGED <<now, notifications, scan, pin, pout, wf, esc>>

\* escalateTicket: the system note is pushed and saved
EscalateNote(s) ==
    /\ sessions[s].pc = "esc_note"
    /\ LET t == sessions[s].target
           doc == sessions[s].doc
       IN
       /\ tickets' = [tickets EXCEPT
             ![t].internalNotes = Append(@, EscalationNote),
             ![t].updatedAt = now,
             ![t].version = PreSaveVersion(doc, TRUE)]
       /\ hist' = [hist EXCEPT
             !.mutations[t] = IF sessions[s].counted THEN @ ELSE @ + 1,
             !.escalated = IF scan.pc = "escalating"
                           THEN @ \cup {[scan |-> scan.n, ticket |-> t]}
                           ELSE @]
       /\ sessions' = [sessions EXCEPT
             ![s].pc = "esc_notify",
             ![s].doc = [doc EXCEPT
                            !.internalNotes = Append(@, EscalationNote),
                            !.updatedAt = now,
                            !.version = PreSaveVersion(doc, TRUE)]]
    /\ UNCHANGED <<now, notifications, scan, pin, pout, wf, esc>>

\* escalateTicket: createNotification for every active admin; delivered is
\* the number of calls that succeed, the next one throws into the catch of
\* escalateTicket, which logs the error and leaves the ticket as saved
EscalateNotify(s, delivered) ==
    /\ sessions[s].pc = "esc_notify"
    /\ delivered \in 0 .. Len(SeqOf(ActiveAdmins))
    /\ LET t == sessions[s].target
           doc == sessions[s].doc
       IN
       notifications' = notifications
             \o NotifyEach(SubSeq(SeqOf(ActiveAdmins), 1, delivered),
                           "ticket_escalated", t)
    /\ sessions' = [sessions EXCEPT ![s] = Done(sessions[s])]
    /\ UNCHANGED <<now, tickets, hist, scan, pin, pout, wf, esc>>

Next ==
    \/ \E d \in TickSteps : Tick(d)
    \/ \E u \in Creators, t \in Tickets, p \in CreatePriorities :
          CreateTicket(u, t, p)
    \/ \E u \in Clients, t \in Tickets : ReadTicket(u, t)
    \/ \E u \in Clients, fields \in PatchBodies : PatchLoad(u, fields)
    \/ \E u \in Clients : PatchHandle(u)
    \/ \E u \in Clients, t \in Tickets : CommentLoad(u, t)
    \/ \E u \in Clients : CommentSave(u)
    \/ \E u \in Clients, t \in Tickets : CancelLoad(u, t)
    \/ \E u \in Clients : CancelSave(u)
    \/ \E t \in Tickets, p \in UpdatePriorities : UpdateSLALoad("system", t, p)
    \/ UpdateSLASave("system")
    \/ \E t \in Tickets : EscalateLoad("system", t)
    \/ EscalatePriority("system")
    \/ EscalateNote("system")
    \/ EscalateNotify("system", Len(SeqOf(ActiveAdmins)))

Spec == Init /\ [][Next]_vars

-----------------------------------------------------------------------------
(* Claims about the ticket life cycle, checked under Spec *)

\* C1: of two callers who both read a ticket at version v and both submit a
\* PATCH carrying version v, at most one has its update applied, whatever
\* the order or interleaving.
C1_AtMostOneUpdatePerVersion ==
    \A a, b \in hist.applied :
        ~ /\ a.session # b.session
          /\ a.ticket = b.ticket
          /\ a.version = b.version
          /\ a.readAt < b.appliedAt
          /\ b.readAt < a.appliedAt

\* C2: the stored version of a ticket equals the number of successful
\* mutations since its creation (creation leaves 0, each mutation adds 1).
C2_VersionCountsMutations ==
    \A t \in Tickets :
        tickets[t].exists => tickets[t].version = hist.mutations[t]

\* C3: an update whose supplied version differs from the stored version of
\* the ticket is rejected with a conflict and changes no stored field.
C3_StaleUpdateRejected ==
    (hist.lastPatch.outcome # "none"
        /\ hist.lastPatch.supplied # hist.lastPatch.stored) =>
            /\ hist.lastPatch.outcome = "conflict"
            /\ ~hist.lastPatch.changed

\* C4: once the priority of a ticket has been changed, by whatever path, its
\* dueDate is its creation time plus the resolution budget of its current
\* priority.
C4_DueDateFollowsPriority ==
    \A t \in Tickets :
        (tickets[t].exists /\ hist.priorityChanged[t]) =>
            tickets[t].dueDate =
                tickets[t].createdAt + StatedBudget(tickets[t].priority) * Hour

\* C5: a newly created ticket has status open, the priority it was created
\* with (medium when none was given), version 0 and a dueDate of its
\* creation time plus the resolution budget of that priority.
C5_NewTicketDefaults ==
    \A t \in Tickets :
        (tickets[t].exists /\ hist.mutations[t] = 0) =>
            /\ tickets[t].status = "open"
            /\ tickets[t].priority =
                  (IF hist.createdWith[t] = NULL THEN "medium"
                   ELSE hist.createdWith[t])
            /\ tickets[t].version = 0
            /\ tickets[t].dueDate =
                  tickets[t].createdAt + StatedBudget(tickets[t].priority) * Hour

-----------------------------------------------------------------------------
(* SpecMonitor: the 15-minute checkSLAStatus pass over tickets filed about *)
(* three days earlier, the calls to the store and to the notification      *)
(* service free to throw, and comments arriving in between.                *)

MaxMonTicks == 2

MaxScans == 2

MaxComments == 1

MonStart == 80 * Hour

\* minutes between two runs of the */15 cron schedule
ScanPeriod == 15

MonTickSteps == {15, 60}

\* the tickets in the store when monitoring starts: filed through POST at
\* createdAt, possibly assigned through PATCH in the same minute
MonTicket(createdBy, assignedTo, priority, createdAt) ==
    [NoTicket EXCEPT
        !.exists = TRUE, !.status = "open", !.priority = priority,
        !.createdBy = createdBy, !.assignedTo = assignedTo,
        !.createdAt = createdAt, !.updatedAt = createdAt,
        !.dueDate = createdAt + DefaultResolutionTime * Hour]

\* due in 2 hours at MonStart, or overdue by 1 hour
MonTickets ==
    { MonTicket("user1", "agent1", "medium", MonStart - 70 * Hour),
      MonTicket("user1", NULL, "urgent", MonStart - 73 * Hour),
      MonTicket("admin1", NULL, "medium", MonStart - 73 * Hour),
      MonTicket("admin1", "agent1", "high", MonStart - 70 * Hour) }

MonInit ==
    /\ now = MonStart
    /\ tickets \in [Tickets -> MonTickets]
    /\ sessions = [s \in Sessions |-> IdleSession]
    /\ notifications = <<>>
    /\ hist = NoHist
    /\ scan = NoScan
    /\ pin = NoInput
    /\ pout = NoOutput
    /\ wf = NoWf
    /\ esc = NoEsc

\* time passes between two passes (a pass takes far less than a minute)
MonTick(d) ==
    /\ hist.ticks < MaxMonTicks
    /\ scan.pc = "idle"
    /\ now' = now + d
    /\ hist' = [hist EXCEPT !.ticks = @ + 1]
    /\ UNCHANGED <<tickets, sessions, notifications, scan, pin, pout, wf, esc>>

\* the documents a Ticket.find returns, in _id order
RECURSIVE Found(_, _, _)
Found(Query(_, _), clock, ids) ==
    IF ids = {} THEN <<>>
    ELSE LET t == CHOOSE x \in ids : \A y \in ids : x <= y
         IN (IF Query(tickets[t], clock)
             THEN <<[id |-> t, doc |-> tickets[t]]>> ELSE <<>>)
            \o Found(Query, clock, ids \ {t})

NoNotification ==
    [user |-> NULL, type |-> "none", ticket |-> 0, createdAt |-> NoDate]

\* notificationService.getNotifications(userId, {unreadOnly: false, limit: 1}):
\* the newest notification of the user, of whatever type and ticket
Newest(list, userId) ==
    LET own == {k \in 1 .. Len(list) : list[k].user = userId}
    IN  IF own = {} THEN NoNotification
        ELSE list[CHOOSE k \in own : \A j \in own : j <= k]

getNotifications(userId) == Newest(notifications, userId)

\* the same test with a window that never runs out
HasRecentNoExpiry(last, type, ticketId, window) ==
    /\ last.type = type
    /\ last.ticket = ticketId

\* hasRecentWarning / hasRecentBreach over that one notification
HasRecent(last, type, ticketId, window) ==
    /\ last.type = type
    /\ last.ticket = ticketId
    /\ last.createdAt > now - window

\* notifySLAWarning: the creator and the assignee
WarningWatchers(doc) == Watchers(doc)

\* notifySLABreach: the creator, the assignee, every active admin
BreachWatchers(doc) ==
    UniqueWatchers(Watchers(doc) \o SeqOf(ActiveAdmins))

\* checkSLAStatus starts: now is taken, the warning query runs
CheckSLAStatus ==
    /\ scan.pc = "idle"
    /\ scan' = [pc |-> "warning", at |-> now,
                queue |-> Found(WarningQuery, now, Tickets),
                n |-> hist.scans + 1]
    /\ hist' = [hist EXCEPT
          !.scans = @ + 1,
          !.selected =
              {[pass |-> "warning", ticket |-> t] :
                  t \in {x \in Tickets : WarningQuery(tickets[x], now)}}
              \cup {[pass |-> "breach", ticket |-> t] :
                  t \in {x \in Tickets : BreachQuery(tickets[x], now)}},
          !.handled = {}]
    /\ UNCHANGED <<now, tickets, sessions, notifications, pin, pout, wf, esc>>

\* the cron schedule */15 fires
ScanBegin ==
    /\ hist.scans = 0 \/ now >= scan.at + ScanPeriod
    /\ CheckSLAStatus

\* the scans of one monitored run
ScanStart ==
    /\ hist.scans < MaxScans
    /\ ScanBegin

\* handleSLAWarning for the next ticket of the warning pass.  delivered is
\* the number of createNotification calls that succeed: fewer than the
\* watchers means the next one throws, which ends checkSLAStatus in its catch.
HandleSLAWarning(delivered) ==
    /\ scan.pc = "warning"
    /\ scan.queue # <<>>
    /\ LET t == Head(scan.queue).id
           doc == Head(scan.queue).doc
           hasRecentWarning ==
               HasRecent(getNotifications(doc.createdBy), "sla_warning", t,
                         1 * Hour)
           watchers == WarningWatchers(doc)
       IN
       IF hasRecentWarning
       THEN /\ delivered = Len(watchers)
            /\ scan' = [scan EXCEPT !.queue = Tail(@)]
            /\ hist' = [hist EXCEPT !.handled =
                  @ \cup {[pass |-> "warning", ticket |-> t]}]
            /\ UNCHANGED notifications
       ELSE /\ delivered \in 0 .. Len(watchers)
            /\ notifications' = notifications
                  \o NotifyEach(SubSeq(watchers, 1, delivered), "sla_warning", t)
            /\ hist' = [hist EXCEPT
                  !.handled = @ \cup {[pass |-> "warning", ticket |-> t]},
                  !.firings =
                      IF delivered > 0
                      THEN @ \cup {[type |-> "sla_warning", ticket |-> t,
                                    at |-> now, scan |-> scan.n]}
                      ELSE @]
            /\ scan' = IF delivered = Len(watchers)
                       THEN [scan EXCEPT !.queue = Tail(@)]
                       ELSE [scan EXCEPT !.pc = "idle", !.queue = <<>>]
    /\ UNCHANGED <<now, tickets, sessions, pin, pout, wf, esc>>

\* the warning pass is through: the breach query runs, with the now taken
\* at the start of checkSLAStatus
BreachFind ==
    /\ scan.pc = "warning"
    /\ scan.queue = <<>>
    /\ scan' = [scan EXCEPT !.pc = "breach",
                            !.queue = Found(BreachQuery, scan.at, Tickets)]
    /\ UNCHANGED <<now, tickets, sessions, notifications, hist, pin, pout, wf, esc>>

\* handleSLABreach for the next ticket of the breach pass, up to the call of
\* escalateTicket.  delivered as in HandleSLAWarning.
HandleSLABreach(delivered) ==
    /\ scan.pc = "breach"
    /\ scan.queue # <<>>
    /\ Idle("system")
    /\ LET t == Head(scan.queue).id
           doc == Head(scan.queue).doc
           hasRecentBreach ==
               HasRecent(getNotifications(doc.createdBy), "sla_breach", t,
                         2 * Hour)
           watchers == BreachWatchers(doc)
       IN
       IF hasRecentBreach
       THEN /\ delivered = Len(watchers)
            /\ scan' = [scan EXCEPT !.queue = Tail(@)]
            /\ hist' = [hist EXCEPT !.handled =
                  @ \cup {[pass |-> "breach", ticket |-> t]}]
            /\ UNCHANGED <<notifications, sessions>>
       ELSE /\ delivered \in 0 .. Len(watchers)
            /\ notifications' = notifications
                  \o NotifyEach(SubSeq(watchers, 1, delivered), "sla_breach", t)
            /\ hist' = [hist EXCEPT
                  !.handled = @ \cup {[pass |-> "breach", ticket |-> t]},
                  !.firings =
                      IF delivered > 0
                      THEN @ \cup {[type |-> "sla_breach", ticket |-> t,
                                    at |-> now, scan |-> scan.n]}
                      ELSE @]
            /\ IF delivered = Len(watchers)
               THEN /\ scan' = [scan EXCEPT !.pc = "escalating"]
                    /\ sessions' = [sessions EXCEPT !["system"] =
                          [sessions["system"] EXCEPT
                              !.pc = "esc_priority", !.target = t,
                              !.doc = doc, !.counted = FALSE]]
               ELSE /\ scan' = [scan EXCEPT !.pc = "idle", !.queue = <<>>]
                    /\ UNCHANGED sessions
    /\ UNCHANGED <<now, tickets, pin, pout, wf, esc>>

\* escalateTicket: a ticket.save() throws; the catch of escalateTicket logs
\* it and the call returns
EscalateSaveFails(s) ==
    /\ \/ sessions[s].pc = "esc_priority" /\ sessions[s].doc.priority # "urgent"
       \/ sessions[s].pc = "esc_note"
    /\ sessions' = [sessions EXCEPT ![s] = Done(sessions[s])]
    /\ UNCHANGED <<now, tickets, notifications, hist, scan, pin, pout, wf, esc>>

\* escalateTicket has returned to handleSLABreach: on to the next ticket
BreachHandled ==
    /\ scan.pc = "escalating"
    /\ Idle("system")
    /\ scan' = [scan EXCEPT !.pc = "breach", !.queue = Tail(@)]
    /\ UNCHANGED <<now, tickets, sessions, notifications, hist, pin, pout, wf, esc>>

\* checkSLAStatus returns
ScanEnd ==
    /\ scan.pc = "breach"
    /\ scan.queue = <<>>
    /\ scan' = [scan EXCEPT !.pc = "idle"]
    /\ UNCHANGED <<now, tickets, sessions, notifications, hist, pin, pout, wf, esc>>

\* a comment posted while the monitor runs
MonComment(u, t) ==
    /\ hist.ops < MaxComments
    /\ CommentLoad(u, t)

MonNext ==
    \/ \E d \in MonTickSteps : MonTick(d)
    \/ ScanStart
    \/ \E k \in 0 .. 2 : HandleSLAWarning(k)
    \/ BreachFind
    \/ \E k \in 0 .. 3 : HandleSLABreach(k)
    \/ EscalatePriority("system")
    \/ EscalateNote("system")
    \/ \E k \in 0 .. 1 : EscalateNotify("system", k)
    \/ EscalateSaveFails("system")
    \/ BreachHandled
    \/ ScanEnd
    \/ \E t \in Tickets : MonComment("admin1", t)
    \/ CommentSave("admin1")

SpecMonitor == MonInit /\ [][MonNext]_vars

-----------------------------------------------------------------------------
(* Claims about the monitor, checked under SpecMonitor *)

\* C9: over any sequence of checkSLAStatus scans, a ticket gets no two
\* sla_warning firings less than 1 hour apart and no two sla_breach firings
\* less than 2 hours apart.
C9_FiringsRespectCoolDown ==
    \A f, g \in hist.firings :
        (f.ticket = g.ticket /\ f.type = g.type /\ f.scan < g.scan) =>
            g.at - f.at >= (IF f.type = "sla_warning" THEN 1 * Hour ELSE 2 * Hour)

\* C10: when a finished checkSLAStatus scan has recorded an sla_breach
\* notification for a ticket, that scan has escalated the ticket.
C10_BreachFiringEscalates ==
    \A f \in hist.firings :
        (f.type = "sla_breach" /\ (f.scan < scan.n \/ scan.pc = "idle")) =>
            [scan |-> f.scan, ticket |-> f.ticket] \in hist.escalated

\* C11: when a checkSLAStatus scan has ended, every ticket its warning query
\* selected and every ticket its breach query selects for the scan's now has
\* been handed to its handler, whether or not a call failed on another ticket.
C11_ScanProcessesEverySelected ==
    (scan.pc = "idle" /\ hist.scans > 0) => hist.selected \subseteq hist.handled

-----------------------------------------------------------------------------
(* SpecWorkflow: the workflow rule engine.  Rules are registered and        *)
(* removed between calls of executeRules; a call walks the registry on a    *)
(* ticket document for a trigger, one rule a step.                          *)

MaxCustomRules == 1

MaxCalls == 2

\* escalateTicket calls made next to the rule engine
MaxWfEscalations == 1

WfStart == 400 * Hour

Day == 24 * Hour

Triggers == {"ticket_created", "ticket_updated"}

\* the enum of Notification.type
NotificationTypes ==
    {"ticket_created", "ticket_updated", "ticket_assigned", "ticket_escalated",
     "comment_added", "sla_breach", "sla_warning", "ticket_resolved"}

\* User.find({role: 'agent', isActive: true, specializations: 'technical'})
TechnicalAgents == {"agent1"}

\* the trigger getWorkflowStats files a rule under
RegisteredTrigger(rule) ==
    IF rule.trigger = NULL THEN "ticket_created" ELSE rule.trigger

\* ticket.assignedTo?.toString(): undefined for a ticket without assignee
AssigneeString(doc) ==
    IF doc.assignedTo = NULL THEN "undefined" ELSE doc.assignedTo

\* one entry of the conditions of a custom rule, as buildCondition tests it
ConditionHolds(c, doc) ==
    CASE c.field = "category" ->
            IF c.operator = "equals"
            THEN doc.category = c.value ELSE doc.category # c.value
      [] c.field = "priority" ->
            IF c.operator = "equals"
            THEN doc.priority = c.value ELSE doc.priority # c.value
      [] c.field = "status" ->
            IF c.operator = "equals"
            THEN doc.status = c.value ELSE doc.status # c.value
      [] c.field = "assignedTo" ->
            IF c.operator = "equals"
            THEN AssigneeString(doc) = c.value ELSE AssigneeString(doc) # c.value
      [] c.field = "createdAt" ->
            IF c.operator = "greater_than"
            THEN now - doc.createdAt > c.value * Day
            ELSE now - doc.createdAt < c.value * Day
      [] c.field = "updatedAt" ->
            IF c.operator = "greater_than"
            THEN now - doc.updatedAt > c.value * Day
            ELSE now - doc.updatedAt < c.value * Day
      [] OTHER -> FALSE

\* buildCondition: conditions.every(...)
BuildCondition(conditions, doc) ==
    \A k \in 1 .. Len(conditions) : ConditionHolds(conditions[k], doc)

\* rule.condition(ticket).  new Date(null) is the epoch, so a resolved ticket
\* without resolvedAt counts as resolved decades ago.
RuleCondition(rule, doc) ==
    CASE rule.kind = "auto_assign_technical" -> doc.category = "technical"
      [] rule.kind = "escalate_high_priority" ->
            doc.priority = "urgent" /\ doc.status = "open"
      [] rule.kind = "auto_close_inactive" ->
            doc.status = "resolved" /\ now - doc.updatedAt >= 7 * Day
      [] rule.kind = "auto_close_resolved" ->
            /\ doc.status = "resolved"
            /\ (doc.resolvedAt = NoDate \/ now - doc.resolvedAt >= 3 * Day)
      [] OTHER -> BuildCondition(rule.conditions, doc)

\* the state an action works on: the id and in-memory document of the
\* ticket, the stored document, the notifications created so far, whether a
\* call has thrown, and the stored document as it was when the action began
ActionState(t, doc) ==
    [id |-> t, doc |-> doc, stored |-> tickets[t], loaded |-> tickets[t],
     out |-> <<>>, threw |-> FALSE]

\* await ticket.save() after the assignments that turn st.doc into new;
\* touched says that a path outside this model (assignedAt) was assigned too
WfSave(st, new, touched) ==
    LET old == st.doc
        isModified == \/ touched
                      \/ new.status # old.status
                      \/ new.priority # old.priority
                      \/ new.assignedTo # old.assignedTo
                      \/ new.resolvedAt # old.resolvedAt
                      \/ new.tags # old.tags
        saved == [new EXCEPT !.version = PreSaveVersion(old, TRUE),
                             !.updatedAt = now]
    IN  IF ~isModified THEN [st EXCEPT !.doc = new]
        ELSE [st EXCEPT
                !.doc = saved,
                !.stored = [@ EXCEPT
                    !.status = IF new.status # old.status THEN new.status ELSE @,
                    !.priority =
                        IF new.priority # old.priority THEN new.priority ELSE @,
                    !.assignedTo =
                        IF new.assignedTo # old.assignedTo
                        THEN new.assignedTo ELSE @,
                    !.resolvedAt =
                        IF new.resolvedAt # old.resolvedAt
                        THEN new.resolvedAt ELSE @,
                    !.tags =
                        @ \o SubSeq(new.tags, Len(old.tags) + 1, Len(new.tags)),
                    !.version = saved.version,
                    !.updatedAt = now]]

\* a notification call that fails and rolls the ticket back to what it was
\* when the action began
WfNotifyTransactional(st, users, type, fail) ==
    IF fail \/ type \notin NotificationTypes
    THEN [st EXCEPT !.threw = TRUE, !.stored = st.loaded]
    ELSE [st EXCEPT !.out = @ \o NotifyEach(users, type, st.id)]

\* createNotification for each of users: the save of a notification whose
\* type the enum does not hold is rejected, and the store may fail (fail)
WfNotify(st, users, type, fail) ==
    IF fail \/ type \notin NotificationTypes
    THEN [st EXCEPT !.threw = TRUE]
    ELSE [st EXCEPT !.out = @ \o NotifyEach(users, type, st.id)]

\* the setter of a tag (trim: true), applied when a value is pushed
Trim(v) ==
    CASE v = " vip " -> "vip"
      [] OTHER -> v

\* ticket.tags.includes(value): the value is compared as it is
Includes(tags, v) == \E k \in 1 .. Len(tags) : tags[k] = v

\* one case of the switch in buildAction
RunAction(a, st, fail) ==
    CASE a.type = "assign_to_agent" ->
            WfNotify(WfSave(st, [st.doc EXCEPT !.assignedTo = a.value], TRUE),
                     <<a.value>>, "ticket_assigned", fail)
      [] a.type = "change_priority" ->
            WfSave(st, [st.doc EXCEPT !.priority = a.value], FALSE)
      [] a.type = "change_status" ->
            WfSave(st, [st.doc EXCEPT
                          !.status = a.value,
                          !.resolvedAt = IF a.value = "resolved" THEN now ELSE @],
                   FALSE)
      [] a.type = "add_tag" ->
            IF Includes(st.doc.tags, a.value) THEN st
            ELSE WfSave(st, [st.doc EXCEPT !.tags = Append(@, Trim(a.value))],
                        FALSE)
      [] a.type = "send_notification" ->
            WfNotify(st,
                     <<IF a.recipient = "ticket_creator"
                       THEN st.doc.createdBy ELSE a.recipient>>,
                     "workflow_notification", fail)
      [] a.type = "escalate_to_admin" ->
            WfNotify(st, SeqOf(ActiveAdmins), "ticket_escalated", fail)
      [] OTHER -> st

\* buildAction: the actions in order, up to the first that throws
RECURSIVE BuildAction(_, _, _)
BuildAction(actions, st, fail) ==
    IF actions = <<>> \/ st.threw THEN st
    ELSE BuildAction(Tail(actions), RunAction(Head(actions), st, fail), fail)

\* rule.action(ticket)
RuleAction(rule, st, fail) ==
    CASE rule.kind = "auto_assign_technical" ->
            IF TechnicalAgents = {} THEN st
            ELSE LET randomAgent == CHOOSE a \in TechnicalAgents : TRUE
                 IN  WfNotify(WfSave(st, [st.doc EXCEPT !.assignedTo = randomAgent],
                                     TRUE),
                              <<randomAgent>>, "ticket_assigned", fail)
      [] rule.kind = "escalate_high_priority" ->
            WfNotify(st, SeqOf(ActiveAdmins), "ticket_escalated", fail)
      [] rule.kind \in {"auto_close_inactive", "auto_close_resolved"} ->
            WfNotify(WfSave(st, [st.doc EXCEPT !.status = "closed"], FALSE),
                     <<st.doc.createdBy>>, "ticket_closed", fail)
      [] OTHER -> BuildAction(rule.actions, st, fail)

\* bodies of POST /api/workflow/rules; trigger NULL when the body has none
RuleData ==
    { [name |-> "notify_creator", trigger |-> NULL, conditions |-> <<>>,
       actions |-> <<[type |-> "send_notification",
                      recipient |-> "ticket_creator"]>>,
       enabled |-> TRUE],
      [name |-> "close_low", trigger |-> "ticket_updated",
       conditions |-> <<[field |-> "priority", operator |-> "equals",
                         value |-> "low"]>>,
       actions |-> <<[type |-> "change_status", value |-> "closed"]>>,
       enabled |-> TRUE],
      [name |-> "assign_open", trigger |-> "ticket_created",
       conditions |-> <<[field |-> "status", operator |-> "equals",
                         value |-> "open"]>>,
       actions |-> <<[type |-> "assign_to_agent", value |-> "agent1"]>>,
       enabled |-> TRUE],
      [name |-> "auto_close_resolved", trigger |-> "ticket_updated",
       conditions |-> <<[field |-> "status", operator |-> "not_equals",
                         value |-> "cancelled"]>>,
       actions |-> <<[type |-> "change_priority", value |-> "high"],
                     [type |-> "escalate_to_admin", value |-> NULL]>>,
       enabled |-> TRUE] }

\* the rule createCustomRule builds from a body
CustomRule(ruleData) ==
    [name |-> ruleData.name, kind |-> "custom",
     trigger |-> IF ruleData.trigger = NULL
                 THEN "ticket_updated" ELSE ruleData.trigger,
     conditions |-> ruleData.conditions, actions |-> ruleData.actions,
     enabled |-> ruleData.enabled]

RuleNames(rules) == { rules[k].name : k \in 1 .. Len(rules) }

\* Map.prototype.set: a known key keeps its place, a new key goes last
MapSet(rules, rule) ==
    IF rule.name \in RuleNames(rules)
    THEN [k \in 1 .. Len(rules) |->
             IF rules[k].name = rule.name THEN rule ELSE rules[k]]
    ELSE Append(rules, rule)

\* Map.prototype.delete
MapDelete(rules, name) == SelectSeq(rules, LAMBDA r : r.name # name)

CustomCount(rules) ==
    Cardinality({k \in 1 .. Len(rules) : rules[k].kind = "custom"})

\* the tickets in the store when the rules are run
WfTicket(status, priority, category, age, resolvedAge) ==
    [NoTicket EXCEPT
        !.exists = TRUE, !.status = status, !.priority = priority,
        !.category = category, !.createdBy = "user1",
        !.createdAt = 0, !.updatedAt = WfStart - age,
        !.dueDate = DefaultResolutionTime * Hour,
        !.firstResponseAt = IF status = "open" THEN NoDate ELSE WfStart - age,
        !.resolvedAt = IF resolvedAge = NoDate THEN NoDate
                       ELSE WfStart - resolvedAge,
        !.version = IF status = "open" THEN 0 ELSE 1]

WfTickets ==
    { WfTicket("open", "medium", "technical", 1 * Hour, NoDate),
      WfTicket("open", "urgent", "general", 5 * Hour, NoDate),
      WfTicket("open", "low", "general", 1 * Hour, NoDate),
      WfTicket("resolved", "low", "general", 8 * Day, 8 * Day),
      WfTicket("resolved", "medium", "billing", 1 * Day, 1 * Day),
      WfTicket("cancelled", "low", "general", 1 * Day, NoDate) }

WfInit ==
    /\ now = WfStart
    /\ tickets \in [Tickets -> WfTickets]
    /\ sessions = [s \in Sessions |-> IdleSession]
    /\ notifications = <<>>
    /\ hist = NoHist
    /\ scan = NoScan
    /\ pin = NoInput
    /\ pout = NoOutput
    /\ wf = NoWf
    /\ esc = NoEsc

\* POST /api/workflow/rules: createCustomRule, addRule
CreateCustomRule(ruleData) ==
    /\ wf.pc = "idle"
    /\ Idle("system")
    /\ CustomCount(MapSet(wf.rules, CustomRule(ruleData))) <= MaxCustomRules
    /\ wf' = [wf EXCEPT !.rules = MapSet(@, CustomRule(ruleData))]
    /\ UNCHANGED <<now, tickets, sessions, notifications, hist, scan, pin, pout, esc>>

\* DELETE /api/workflow/rules/:name: removeRule
RemoveRule(name) ==
    /\ wf.pc = "idle"
    /\ Idle("system")
    /\ name \in RuleNames(wf.rules)
    /\ wf' = [wf EXCEPT !.rules = MapDelete(@, name)]
    /\ UNCHANGED <<now, tickets, sessions, notifications, hist, scan, pin, pout, esc>>

\* executeRules(ticket, trigger) is called with a document just read
ExecuteRules(t, trigger) ==
    /\ wf.pc = "idle"
    /\ Idle("system")
    /\ wf.calls < MaxCalls
    /\ tickets[t].exists
    /\ wf' = [wf EXCEPT !.pc = "running", !.i = 1, !.ticket = t,
                        !.doc = tickets[t], !.start = tickets[t],
                        !.trigger = trigger,
                        !.ran = <<>>, !.threwAt = 0, !.calls = @ + 1]
    /\ UNCHANGED <<now, tickets, sessions, notifications, hist, scan, pin, pout, esc>>

\* one turn of the for loop of executeRules.  fail: the store rejects the
\* first notification the action creates.  A throw leaves the loop for the
\* catch around it, which logs and returns.
RuleStep(fail) ==
    /\ wf.pc = "running"
    /\ wf.i <= Len(wf.rules)
    /\ LET rule == wf.rules[wf.i]
           t == wf.ticket
       IN
       IF rule.trigger # NULL /\ rule.trigger # wf.trigger
       THEN /\ ~fail
            /\ wf' = [wf EXCEPT !.i = @ + 1]
            /\ UNCHANGED <<tickets, notifications>>
       ELSE IF ~RuleCondition(rule, wf.doc)
       THEN /\ ~fail
            /\ wf' = [wf EXCEPT !.i = @ + 1]
            /\ UNCHANGED <<tickets, notifications>>
       ELSE LET res == RuleAction(rule, ActionState(t, wf.doc), fail)
            IN  /\ fail => res.threw
                /\ tickets' = [tickets EXCEPT ![t] = res.stored]
                /\ notifications' = notifications \o res.out
                /\ wf' = IF res.threw
                         THEN [wf EXCEPT !.pc = "idle", !.doc = res.doc,
                                         !.ran = Append(@, wf.i),
                                         !.threwAt = wf.i]
                         ELSE [wf EXCEPT !.i = @ + 1, !.doc = res.doc,
                                         !.ran = Append(@, wf.i)]
    /\ UNCHANGED <<now, sessions, hist, scan, pin, pout, esc>>

\* the loop is through: executeRules returns
ExecuteRulesEnd ==
    /\ wf.pc = "running"
    /\ wf.i > Len(wf.rules)
    /\ wf' = [wf EXCEPT !.pc = "idle"]
    /\ UNCHANGED <<now, tickets, sessions, notifications, hist, scan, pin, pout, esc>>

WfNext ==
    \/ \E ruleData \in RuleData : CreateCustomRule(ruleData)
    \/ \E ruleData \in RuleData : RemoveRule(ruleData.name)
    \/ \E t \in Tickets, trigger \in Triggers : ExecuteRules(t, trigger)
    \/ \E fail \in BOOLEAN : RuleStep(fail)
    \/ ExecuteRulesEnd
    \/ \E t \in Tickets :
          /\ wf.pc = "idle"
          /\ hist.ops < MaxWfEscalations
          /\ EscalateLoad("system", t)
    \/ EscalatePriority("system")
    \/ EscalateNote("system")
    \/ \E k \in 0 .. 1 : EscalateNotify("system", k)

SpecWorkflow == WfInit /\ [][WfNext]_vars

-----------------------------------------------------------------------------
(* Claims about the rule engine, checked under SpecWorkflow *)

\* C12: when the action of a rule has thrown in an executeRules call, every
\* later rule of the registry whose trigger matches the call's trigger and
\* whose condition holds for the ticket has been run by that call (the call
\* itself returns without throwing).
C12_LaterRulesRunAfterThrow ==
    (wf.pc = "idle" /\ wf.threwAt > 0) =>
        \A k \in wf.threwAt + 1 .. Len(wf.rules) :
            ( /\ RegisteredTrigger(wf.rules[k]) = wf.trigger
              /\ RuleCondition(wf.rules[k], wf.doc) )
            => \E j \in 1 .. Len(wf.ran) : wf.ran[j] = k

\* C13: executeRules runs rules in registry insertion order and runs the
\* action of a rule only if the rule is registered for the trigger of the
\* call; a rule registered for another trigger is never run for the event.
C13_OnlyMatchingTriggerRuns ==
    /\ \A j \in 1 .. Len(wf.ran) :
          RegisteredTrigger(wf.rules[wf.ran[j]]) = wf.trigger
    /\ \A j \in 1 .. Len(wf.ran) - 1 : wf.ran[j] < wf.ran[j + 1]

-----------------------------------------------------------------------------
(* SpecEscalation: the hourly checkEscalations pass over tickets of every  *)
(* kind, no call failing, with hours passing between two passes.           *)

MaxPasses == 2

MaxEscTicks == 2

EscStart == 100 * Hour

\* minutes between two runs of the '0 * * * *' cron schedule
PassPeriod == 60

EscTickSteps == {1 * Hour, 4 * Hour}

EscTicket(status, assignedTo, priority, age, idle) ==
    [NoTicket EXCEPT
        !.exists = TRUE, !.status = status, !.priority = priority,
        !.createdBy = "user1", !.assignedTo = assignedTo,
        !.createdAt = EscStart - age, !.updatedAt = EscStart - idle,
        !.dueDate = EscStart - age + DefaultResolutionTime * Hour,
        !.firstResponseAt = IF status = "open" THEN NoDate ELSE EscStart - idle,
        !.version = IF idle = age THEN 0 ELSE 1]

EscTickets ==
    { EscTicket("open", NULL, "medium", 30 * Hour, 30 * Hour),
      EscTicket("open", NULL, "high", 30 * Hour, 30 * Hour),
      EscTicket("in_progress", "agent1", "urgent", 10 * Hour, 5 * Hour),
      EscTicket("open", "agent1", "medium", 30 * Hour, 30 * Hour),
      EscTicket("resolved", NULL, "high", 30 * Hour, 6 * Hour),
      EscTicket("open", NULL, "high", 1 * Hour, 1 * Hour) }

EscInit ==
    /\ now = EscStart
    /\ tickets \in [Tickets -> EscTickets]
    /\ sessions = [s \in Sessions |-> IdleSession]
    /\ notifications = <<>>
    /\ hist = NoHist
    /\ scan = NoScan
    /\ pin = NoInput
    /\ pout = NoOutput
    /\ wf = NoWf
    /\ esc = NoEsc

\* time passes between two passes
EscTick(d) ==
    /\ hist.ticks < MaxEscTicks
    /\ esc.pc = "idle"
    /\ now' = now + d
    /\ hist' = [hist EXCEPT !.ticks = @ + 1]
    /\ UNCHANGED <<tickets, sessions, notifications, scan, pin, pout, wf, esc>>

\* the cron schedule '0 * * * *' fires: checkEscalations starts, now is
\* taken, the query for unassigned tickets runs
EscalationStart ==
    /\ esc.pc = "idle"
    /\ esc.n < MaxPasses
    /\ esc.n = 0 \/ now >= esc.at + PassPeriod
    /\ esc' = [pc |-> "unassigned", at |-> now,
               queue |-> Found(UnassignedQuery, now, Tickets),
               n |-> esc.n + 1, busy |-> FALSE,
               before |-> tickets, mark |-> Len(notifications)]
    /\ UNCHANGED <<now, tickets, sessions, notifications, hist, scan, pin, pout, wf>>

\* await this.escalateTicket(ticket) for the next document of the loop
EscalationTake ==
    /\ esc.pc \in {"unassigned", "stale"}
    /\ esc.queue # <<>>
    /\ ~esc.busy
    /\ Idle("hourly")
    /\ sessions' = [sessions EXCEPT !["hourly"] =
          [sessions["hourly"] EXCEPT
              !.pc = "esc_priority", !.target = Head(esc.queue).id,
              !.doc = Head(esc.queue).doc, !.counted = FALSE]]
    /\ esc' = [esc EXCEPT !.busy = TRUE]
    /\ UNCHANGED <<now, tickets, notifications, hist, scan, pin, pout, wf>>

\* escalateTicket has returned: on to the next document
EscalationHandled ==
    /\ esc.busy
    /\ Idle("hourly")
    /\ esc' = [esc EXCEPT !.busy = FALSE, !.queue = Tail(@)]
    /\ UNCHANGED <<now, tickets, sessions, notifications, hist, scan, pin, pout, wf>>

\* the first loop is through: the query for stale high-priority tickets
\* runs, with the now taken at the start of checkEscalations
StaleFind ==
    /\ esc.pc = "unassigned"
    /\ esc.queue = <<>>
    /\ esc' = [esc EXCEPT !.pc = "stale",
                          !.queue = Found(StaleHighPriorityQuery, esc.at, Tickets)]
    /\ UNCHANGED <<now, tickets, sessions, notifications, hist, scan, pin, pout, wf>>

\* checkEscalations returns
EscalationEnd ==
    /\ esc.pc = "stale"
    /\ esc.queue = <<>>
    /\ esc' = [esc EXCEPT !.pc = "idle"]
    /\ UNCHANGED <<now, tickets, sessions, notifications, hist, scan, pin, pout, wf>>

EscNext ==
    \/ \E d \in EscTickSteps : EscTick(d)
    \/ EscalationStart
    \/ EscalationTake
    \/ EscalatePriority("hourly")
    \/ EscalateNote("hourly")
    \/ EscalateNotify("hourly", Len(SeqOf(ActiveAdmins)))
    \/ EscalationHandled
    \/ StaleFind
    \/ EscalationEnd

SpecEscalation == EscInit /\ [][EscNext]_vars

-----------------------------------------------------------------------------
(* Claims about the escalation pass, checked under SpecEscalation *)

\* the two escalation criteria as the escalation policy states them
StatedEscalationCriteria(t, clock) ==
    /\ t.exists
    /\ \/ /\ t.status = "open"
          /\ t.assignedTo = NULL
          /\ clock - t.createdAt > 24 * Hour
       \/ /\ t.status \in {"open", "in_progress"}
          /\ t.priority \in {"high", "urgent"}
          /\ clock - t.updatedAt > 4 * Hour

\* the notifications recorded since the pass began
SincePass == SubSeq(notifications, esc.mark + 1, Len(notifications))

\* C14: after a checkEscalations pass, every ticket that met one of the two
\* criteria when the pass began has priority urgent, exactly one more
\* internal note, written by the system, and one new ticket_escalated
\* notification per active admin; every other ticket is unchanged.
C14_PassEscalatesExactlyTheMatching ==
    (esc.pc = "idle" /\ esc.n > 0) =>
        \A t \in Tickets :
            LET b == esc.before[t]
                a == tickets[t]
            IN  IF StatedEscalationCriteria(b, esc.at)
                THEN /\ a.priority = "urgent"
                     /\ Len(a.internalNotes) = Len(b.internalNotes) + 1
                     /\ a.internalNotes[Len(a.internalNotes)].addedBy = NULL
                     /\ \A admin \in ActiveAdmins :
                           Cardinality({k \in 1 .. Len(SincePass) :
                               /\ SincePass[k].user = admin
                               /\ SincePass[k].type = "ticket_escalated"
                               /\ SincePass[k].ticket = t}) = 1
                ELSE a = b

\* a pass has ended that escalated a ticket meeting both criteria next to a
\* ticket meeting none
C14_Witness ==
    /\ esc.pc = "idle" /\ esc.n > 0
    /\ \E t \in Tickets :
          /\ UnassignedQuery(esc.before[t], esc.at)
          /\ StaleHighPriorityQuery(esc.before[t], esc.at)
          /\ Len(tickets[t].internalNotes) = 1
    /\ \E t \in Tickets :
          /\ ~StatedEscalationCriteria(esc.before[t], esc.at)
          /\ tickets[t] = esc.before[t]

-----------------------------------------------------------------------------
(* SpecRace: a checkSLAStatus scan and a checkEscalations pass started in  *)
(* the same minute, their awaits interleaving, over tickets that are       *)
(* overdue, neglected or both.                                             *)

RaceTickets ==
    { EscTicket("open", NULL, "medium", 80 * Hour, 80 * Hour),
      EscTicket("in_progress", "agent1", "high", 80 * Hour, 5 * Hour),
      EscTicket("open", NULL, "high", 30 * Hour, 30 * Hour),
      EscTicket("open", "agent1", "low", 80 * Hour, 1 * Hour) }

RaceInit ==
    /\ now = EscStart
    /\ tickets \in [Tickets -> RaceTickets]
    /\ sessions = [s \in Sessions |-> IdleSession]
    /\ notifications = <<>>
    /\ hist = NoHist
    /\ scan = NoScan
    /\ pin = NoInput
    /\ pout = NoOutput
    /\ wf = NoWf
    /\ esc = NoEsc

RaceNext ==
    \/ ScanStart
    \/ BreachFind
    \/ \E k \in 0 .. 3 : HandleSLABreach(k)
    \/ EscalatePriority("system")
    \/ EscalateNote("system")
    \/ EscalateNotify("system", Len(SeqOf(ActiveAdmins)))
    \/ BreachHandled
    \/ ScanEnd
    \/ EscalationStart
    \/ EscalationTake
    \/ EscalatePriority("hourly")
    \/ EscalateNote("hourly")
    \/ EscalateNotify("hourly", Len(SeqOf(ActiveAdmins)))
    \/ EscalationHandled
    \/ StaleFind
    \/ EscalationEnd

SpecRace == RaceInit /\ [][RaceNext]_vars

\* C15: a save of escalateTicket, made for the breach scan or for the
\* escalation pass, is applied only when the stored version of the ticket
\* is the version of the document the writer holds; a writer whose document
\* is stale is rejected and writes nothing.
C15_NoWriteOnNewerVersion ==
    [][ \A s \in {"system", "hourly"} :
          ( /\ sessions[s].pc \in {"esc_priority", "esc_note"}
            /\ sessions'[s].pc # sessions[s].pc
            /\ tickets'[sessions[s].target] # tickets[sessions[s].target] )
          => tickets[sessions[s].target].version = sessions[s].doc.version
      ]_vars

-----------------------------------------------------------------------------
(* Claims about the SLA timestamps and the terminal state *)

\* C24: the escalations of one tick append at most one internal note to a
\* ticket: the notes of a ticket carry pairwise different times, whether the
\* ticket meets one or both criteria of the escalation pass and whether or
\* not escalateTicket is entered for it twice in immediate succession.
C24_OneNotePerTick ==
    \A t \in Tickets :
        \A i, j \in 1 .. Len(tickets[t].internalNotes) :
            i # j => tickets[t].internalNotes[i].addedAt
                         # tickets[t].internalNotes[j].addedAt

\* C16: every write that changes the status of a ticket leaves firstResponseAt
\* set, and no write changes a firstResponseAt that is set.
C16_FirstResponseSetOnceOnStatusChange ==
    [][ \A t \in Tickets :
          tickets[t].exists =>
            /\ tickets'[t].status # tickets[t].status
                  => tickets'[t].firstResponseAt # NoDate
            /\ tickets[t].firstResponseAt # NoDate
                  => tickets'[t].firstResponseAt = tickets[t].firstResponseAt
      ]_vars

\* C17: every write that turns the status of a ticket into resolved or closed
\* leaves resolvedAt set, and keeps a resolvedAt that was set before.
C17_ResolvedAtSetOnResolution ==
    [][ \A t \in Tickets :
          ( /\ tickets[t].exists
            /\ tickets'[t].status # tickets[t].status
            /\ tickets'[t].status \in {"resolved", "closed"} )
          => /\ tickets'[t].resolvedAt # NoDate
             /\ tickets[t].resolvedAt # NoDate
                   => tickets'[t].resolvedAt = tickets[t].resolvedAt
      ]_vars

\* C18: no write changes the status of a cancelled ticket.
C18_CancelledIsTerminal ==
    [][ \A t \in Tickets :
          (tickets[t].exists /\ tickets[t].status = "cancelled")
          => tickets'[t].status = "cancelled"
      ]_vars

-----------------------------------------------------------------------------
(* Claims about failing notifications, checked under SpecWorkflow *)

MutationFields == {"status", "priority", "assignedTo", "resolvedAt", "version"}

\* C19: when a notification call fails after a ticket mutation that led to
\* it, the mutation stays stored.  For a rule action: every field the action
\* assigned and saved before the failing call holds its new value in the
\* store.  For escalateTicket: the stored ticket still has the priority, the
\* notes and the version escalateTicket saved.
C19_FailedNotificationKeepsMutation ==
    [][ /\ (wf.pc = "running" /\ wf'.pc = "idle" /\ wf'.threwAt > 0) =>
              \A f \in MutationFields :
                  wf'.doc[f] # wf.doc[f] => tickets'[wf.ticket][f] = wf'.doc[f]
        /\ ( /\ sessions["system"].pc = "esc_notify"
             /\ sessions'["system"].pc = "idle"
             /\ Len(notifications') - Len(notifications)
                    < Cardinality(ActiveAdmins) ) =>
              LET t == sessions["system"].target
                  doc == sessions["system"].doc
              IN  /\ tickets'[t].priority = doc.priority
                  /\ tickets'[t].internalNotes = doc.internalNotes
                  /\ tickets'[t].version = doc.version
      ]_vars

\* the assignment notification of auto_assign_technical has failed and the
\* ticket is stored as assigned; an escalation whose admin notifications all
\* failed has returned and its note is stored
C19_Witness ==
    /\ wf.pc = "idle"
    /\ wf.threwAt > 0
    /\ wf.rules[wf.threwAt].kind = "auto_assign_technical"
    /\ tickets[wf.ticket].assignedTo = "agent1"
    /\ tickets[wf.ticket].version = wf.doc.version
    /\ \A k \in 1 .. Len(notifications) : notifications[k].type # "ticket_assigned"
    /\ Idle("system")
    /\ \E t \in Tickets :
          /\ Len(tickets[t].internalNotes) = 1
          /\ tickets[t].priority = "urgent"
          /\ \A k \in 1 .. Len(notifications) :
                ~(notifications[k].type = "ticket_escalated"
                  /\ notifications[k].ticket = t)

\* days a resolved ticket is left alone by auto_close_resolved
GracePeriod == 3

AutoCloseKinds == {"auto_close_inactive", "auto_close_resolved"}

\* C21: when an executeRules call has run on a ticket that was resolved at
\* least the grace period before, the ticket is closed and a notification
\* addressed to its creator is recorded; a resolved ticket whose resolution
\* is more recent than the grace period is not closed by an auto-close rule.
C21_AutoCloseAfterGracePeriod ==
    (wf.pc = "idle" /\ wf.calls > 0 /\ wf.start.status = "resolved"
        /\ wf.start.resolvedAt # NoDate) =>
        IF now - wf.start.resolvedAt >= GracePeriod * Day
        THEN /\ tickets[wf.ticket].status = "closed"
             /\ \E k \in 1 .. Len(notifications) :
                   /\ notifications[k].user = wf.start.createdBy
                   /\ notifications[k].ticket = wf.ticket
        ELSE \A j \in 1 .. Len(wf.ran) :
                 wf.rules[wf.ran[j]].kind \notin AutoCloseKinds

-----------------------------------------------------------------------------
(* SpecMonitorLive: the checkSLAStatus schedule left running.  The cron    *)
(* schedule fires every 15 minutes; during the first FailurePeriods        *)
(* periods a firing may be missed and any call of a scan may throw, after   *)
(* that every scan runs and runs through.                                   *)

FailurePeriods == 1

LiveStart == 100 * Hour

\* the periods of the schedule a breach notification keeps hasRecentBreach true
DedupPeriods == (2 * Hour) \div ScanPeriod

LiveEnd == LiveStart + (FailurePeriods + DedupPeriods) * ScanPeriod

MayFail == now < LiveStart + FailurePeriods * ScanPeriod

\* overdue by one hour; overdue, filed by an admin and already urgent; due in
\* 75 minutes, a warning first and a breach later
LiveTickets ==
    { MonTicket("user1", "agent1", "medium", LiveStart - 73 * Hour),
      MonTicket("admin1", NULL, "urgent", LiveStart - 73 * Hour),
      [MonTicket("user1", NULL, "high", LiveStart - 71 * Hour + 15)
           EXCEPT !.dueDate = LiveStart + 75] }

LiveInit ==
    /\ now = LiveStart
    /\ tickets \in [Tickets -> LiveTickets]
    /\ sessions = [s \in Sessions |-> IdleSession]
    /\ notifications = <<>>
    /\ hist = NoHist
    /\ scan = NoScan
    /\ pin = NoInput
    /\ pout = NoOutput
    /\ wf = NoWf
    /\ esc = NoEsc

\* the next firing of the schedule is due: the scan of this one has
\* returned, or the firing was missed
LiveTick ==
    /\ scan.pc = "idle"
    /\ now + ScanPeriod <= LiveEnd
    /\ (hist.scans > 0 /\ scan.at = now) \/ MayFail
    /\ now' = now + ScanPeriod
    /\ UNCHANGED <<tickets, sessions, notifications, hist, scan, pin, pout, wf, esc>>

\* the steps of one checkSLAStatus run; a step in which a call throws is
\* taken only while MayFail
LiveScan ==
    \/ ScanBegin
    \/ \E k \in 0 .. 2 : HandleSLAWarning(k) /\ (scan'.pc = "idle" => MayFail)
    \/ BreachFind
    \/ \E k \in 0 .. 3 : HandleSLABreach(k) /\ (scan'.pc = "idle" => MayFail)
    \/ EscalatePriority("system")
    \/ EscalateNote("system")
    \/ \E k \in 0 .. 1 :
          EscalateNotify("system", k) /\ (k < Cardinality(ActiveAdmins) => MayFail)
    \/ EscalateSaveFails("system") /\ MayFail
    \/ BreachHandled
    \/ ScanEnd

LiveNext ==
    \/ LiveTick
    \/ LiveScan

\* node-cron fires the schedule as time passes, and the async callback runs
\* to its end once started
SpecMonitorLive ==
    LiveInit /\ [][LiveNext]_vars /\ WF_vars(LiveTick) /\ WF_vars(LiveScan)

BreachRecorded(t) ==
    \E k \in 1 .. Len(notifications) :
        notifications[k].type = "sla_breach" /\ notifications[k].ticket = t

Escalated(t) ==
    /\ tickets[t].priority = "urgent"
    /\ tickets[t].internalNotes # <<>>
    /\ \E f \in hist.escalated : f.ticket = t

\* C20: with the 15-minute schedule firing fairly, a ticket that is open or
\* in_progress with its dueDate in the past eventually has an sla_breach
\* notification recorded for it and is escalated, whatever firings were
\* missed and whatever scans failed before; the scans keep no state of
\* their own between firings.
C20_OverdueEventuallyEscalated ==
    \A t \in Tickets :
        BreachQuery(tickets[t], now) ~> (BreachRecorded(t) /\ Escalated(t))

\* a scan fired sla_breach for a ticket and ended without escalating it, and
\* a later scan has escalated the ticket
C20_Witness ==
    \E t \in Tickets : \E f \in hist.firings :
        /\ f.type = "sla_breach" /\ f.ticket = t
        /\ [scan |-> f.scan, ticket |-> t] \notin hist.escalated
        /\ f.scan < scan.n
        /\ BreachQuery(tickets[t], now)
        /\ BreachRecorded(t) /\ Escalated(t)

-----------------------------------------------------------------------------
(* SpecScenario: tickets filed with priority urgent at ScenT0, one of them  *)
(* assigned by an admin in the same minute, and the checkSLAStatus scans of *)
(* the hours and days after, no call failing.                               *)

MaxScenTicks == 5

ScenT0 == 200 * Hour

ScenTickSteps == {5, 1 * Hour, 70 * Hour}

ScenInit ==
    /\ now = ScenT0
    /\ tickets = [t \in Tickets |-> NoTicket]
    /\ sessions = [s \in Sessions |-> IdleSession]
    /\ notifications = <<>>
    /\ hist = NoHist
    /\ scan = NoScan
    /\ pin = NoInput
    /\ pout = NoOutput
    /\ wf = NoWf
    /\ esc = NoEsc

\* POST /api/tickets with priority urgent
ScenCreate(t) ==
    /\ now = ScenT0
    /\ CreateTicket("user1", t, "urgent")

\* the admin opens the ticket and assigns it to the agent
ScenAssign ==
    /\ now = ScenT0
    /\ \/ \E t \in Tickets :
             tickets[t].assignedTo = NULL /\ ReadTicket("admin1", t)
       \/ PatchLoad("admin1", [NoBody EXCEPT !.assignedTo = "agent1"])
       \/ PatchHandle("admin1")

ScenTick(d) ==
    /\ hist.ticks < MaxScenTicks
    /\ scan.pc = "idle"
    /\ \A s \in Sessions : Idle(s)
    /\ now' = now + d
    /\ hist' = [hist EXCEPT !.ticks = @ + 1]
    /\ UNCHANGED <<tickets, sessions, notifications, scan, pin, pout, wf, esc>>

\* the steps of a checkSLAStatus run in which no call throws
ScenScan ==
    \/ ScanBegin
    \/ \E k \in 0 .. 2 : HandleSLAWarning(k) /\ scan'.pc # "idle"
    \/ BreachFind
    \/ \E k \in 0 .. 3 : HandleSLABreach(k) /\ scan'.pc # "idle"
    \/ EscalatePriority("system")
    \/ EscalateNote("system")
    \/ EscalateNotify("system", Cardinality(ActiveAdmins))
    \/ BreachHandled
    \/ ScanEnd

ScenNext ==
    \/ \E t \in Tickets : ScenCreate(t)
    \/ ScenAssign
    \/ \E d \in ScenTickSteps : ScenTick(d)
    \/ ScenScan

SpecScenario == ScenInit /\ [][ScenNext]_vars

ScanDoneAt(at) == scan.pc = "idle" /\ hist.scans > 0 /\ scan.at = at

\* the notifications of one type a scan started at at has recorded for t
SentBy(at, type, t) ==
    {k \in 1 .. Len(notifications) :
        /\ notifications[k].createdAt = at
        /\ notifications[k].type = type
        /\ notifications[k].ticket = t}

\* every user of users has one of the notifications, and nobody else has one
OneEach(sent, users) ==
    /\ {notifications[k].user : k \in sent} = users \ {NULL}
    /\ Cardinality(sent) = Cardinality(users \ {NULL})

\* C22: a ticket created with priority urgent at T0 has dueDate T0 + 2h; the
\* scan run at T0 + 1h05m fires exactly one sla_warning to creator and
\* assignee; the scan run at T0 + 2h05m fires one sla_breach to creator,
\* assignee and admins, leaves priority urgent and appends one internal note.
C22_UrgentTicketScenario ==
    \A t \in Tickets :
        (tickets[t].exists /\ hist.createdWith[t] = "urgent") =>
            /\ tickets[t].dueDate = tickets[t].createdAt + 2 * Hour
            /\ ScanDoneAt(tickets[t].createdAt + 65) =>
                  OneEach(SentBy(scan.at, "sla_warning", t),
                          {tickets[t].createdBy, tickets[t].assignedTo})
            /\ ScanDoneAt(tickets[t].createdAt + 125) =>
                  /\ OneEach(SentBy(scan.at, "sla_breach", t),
                             {tickets[t].createdBy, tickets[t].assignedTo}
                                 \cup ActiveAdmins)
                  /\ tickets[t].priority = "urgent"
                  /\ Len(tickets[t].internalNotes) = 1

-----------------------------------------------------------------------------
(* SpecDedup: checkSLAStatus called again 10 or 90 minutes after a call, on *)
(* tickets inside the warning window at the first call, no call failing.    *)

MaxDedupScans == 3

MaxDedupTicks == 2

DedupStart == 300 * Hour

DedupTickSteps == {10, 90}

\* due in 90 minutes or in 110 minutes at DedupStart
DedupTickets ==
    { NoTicket,
      [MonTicket("user1", "agent1", "medium", DedupStart - 71 * Hour)
           EXCEPT !.dueDate = DedupStart + 90],
      [MonTicket("user1", NULL, "high", DedupStart - 71 * Hour)
           EXCEPT !.dueDate = DedupStart + 110] }

DedupInit ==
    /\ now = DedupStart
    /\ tickets \in [Tickets -> DedupTickets]
    /\ sessions = [s \in Sessions |-> IdleSession]
    /\ notifications = <<>>
    /\ hist = NoHist
    /\ scan = NoScan
    /\ pin = NoInput
    /\ pout = NoOutput
    /\ wf = NoWf
    /\ esc = NoEsc

DedupTick(d) ==
    /\ hist.ticks < MaxDedupTicks
    /\ scan.pc = "idle"
    /\ hist.scans > 0
    /\ now' = now + d
    /\ hist' = [hist EXCEPT !.ticks = @ + 1]
    /\ UNCHANGED <<tickets, sessions, notifications, scan, pin, pout, wf, esc>>

\* a call of checkSLAStatus at any moment
DedupCall ==
    /\ hist.scans < MaxDedupScans
    /\ CheckSLAStatus

DedupNext ==
    \/ \E d \in DedupTickSteps : DedupTick(d)
    \/ DedupCall
    \/ \E k \in 0 .. 2 : HandleSLAWarning(k) /\ scan'.pc # "idle"
    \/ BreachFind
    \/ \E k \in 0 .. 3 : HandleSLABreach(k) /\ scan'.pc # "idle"
    \/ EscalatePriority("system")
    \/ EscalateNote("system")
    \/ EscalateNotify("system", Cardinality(ActiveAdmins))
    \/ BreachHandled
    \/ ScanEnd

SpecDedup == DedupInit /\ [][DedupNext]_vars

WarningFiredIn(t, n) ==
    \E g \in hist.firings :
        g.type = "sla_warning" /\ g.ticket = t /\ g.scan = n

\* C23: for a ticket warned by one checkSLAStatus scan, a second scan 10
\* minutes later produces no further warning firing, and a second scan 90
\* minutes later produces a second warning firing.
C23_WarningDedupWindow ==
    \A f \in hist.firings :
        ( /\ f.type = "sla_warning"
          /\ f.scan = scan.n - 1
          /\ scan.pc = "idle" ) =>
            /\ scan.at - f.at = 10 => ~WarningFiredIn(f.ticket, scan.n)
            /\ scan.at - f.at = 90 => WarningFiredIn(f.ticket, scan.n)

-----------------------------------------------------------------------------
(* SpecCondition: the condition buildCondition returns, applied to tickets *)
(* of different age for lists of up to MaxConditions conditions.           *)

MaxConditions == 2

MaxCondTicks == 2

CondStart == 500 * Hour

\* entries of the conditions array of a POST /api/workflow/rules body
ConditionEntries ==
    { [field |-> "category", operator |-> "equals", value |-> "technical"],
      [field |-> "priority", operator |-> "not_equals", value |-> "low"],
      [field |-> "status", operator |-> "equals", value |-> "open"],
      [field |-> "assignedTo", operator |-> "equals", value |-> NULL],
      [field |-> "assignedTo", operator |-> "not_equals", value |-> "agent1"],
      [field |-> "createdAt", operator |-> "greater_than", value |-> 1],
      [field |-> "createdAt", operator |-> "less_than", value |-> 2],
      [field |-> "updatedAt", operator |-> "less_than", value |-> 1] }

ConditionLists ==
    UNION { [1 .. n -> ConditionEntries] : n \in 0 .. MaxConditions }

CondTicket(status, priority, category, assignedTo, age, idle) ==
    [NoTicket EXCEPT
        !.exists = TRUE, !.status = status, !.priority = priority,
        !.category = category, !.createdBy = "user1",
        !.assignedTo = assignedTo,
        !.createdAt = CondStart - age, !.updatedAt = CondStart - idle]

CondTickets ==
    { CondTicket("open", "medium", "technical", NULL, 1 * Day, 1 * Day),
      CondTicket("open", "low", "general", "agent1", 2 * Day - 12 * Hour, 12 * Hour),
      CondTicket("in_progress", "high", "technical", "agent1", 12 * Hour, 0),
      CondTicket("resolved", "low", "billing", NULL, 3 * Day, 1 * Day - 12 * Hour) }

CondInit ==
    /\ now = CondStart
    /\ pin \in [conditions : ConditionLists, doc : CondTickets]
    /\ pout = [fn |-> "none", at |-> 0, value |-> FALSE]
    /\ wf = NoWf
    /\ esc = NoEsc
    /\ tickets = [t \in Tickets |-> NoTicket]
    /\ sessions = [s \in Sessions |-> IdleSession]
    /\ notifications = <<>>
    /\ hist = NoHist
    /\ scan = NoScan

CondTick ==
    /\ now < CondStart + MaxCondTicks * 12 * Hour
    /\ now' = now + 12 * Hour
    /\ UNCHANGED <<tickets, sessions, notifications, hist, scan, pin, pout, wf, esc>>

\* rule.condition(ticket) of the rule built from the conditions
CallCondition ==
    /\ pout' = [fn |-> "condition", at |-> now,
                value |-> BuildCondition(pin.conditions, pin.doc)]
    /\ UNCHANGED <<now, tickets, sessions, notifications, hist, scan, pin, wf, esc>>

CondNext ==
    \/ CondTick
    \/ CallCondition

SpecCondition == CondInit /\ [][CondNext]_vars

\* the relation of one condition as the rule author reads it
StatedConditionHolds(c, doc, clock) ==
    CASE c.operator = "equals" -> doc[c.field] = c.value
      [] c.operator = "not_equals" -> doc[c.field] # c.value
      [] c.operator = "greater_than" -> clock - doc[c.field] > c.value * Day
      [] c.operator = "less_than" -> clock - doc[c.field] < c.value * Day
      [] OTHER -> FALSE

\* C25: the condition built from a rule body is the conjunction of its
\* conditions (true for none): equals / not_equals hold exactly when the
\* ticket field equals / differs from the value, greater_than / less_than on
\* createdAt or updatedAt exactly when the days elapsed since that time are
\* more / fewer than the value.
C25_ConditionIsConjunction ==
    pout.fn = "condition" =>
        pout.value =
            (\A k \in 1 .. Len(pin.conditions) :
                StatedConditionHolds(pin.conditions[k], pin.doc, pout.at))

-----------------------------------------------------------------------------
(* SpecTags: rules whose actions add a tag, enabled or disabled, run once   *)
(* or twice on tickets that carry some tags already and that no default    *)
(* rule applies to.                                                         *)

TagValues == {"vip", " vip "}

TagRuleData ==
    { [name |-> "tag_once", trigger |-> NULL, conditions |-> <<>>,
       actions |-> <<[type |-> "add_tag", value |-> v]>>, enabled |-> TRUE] :
         v \in TagValues }
    \cup
    { [name |-> "tag_twice", trigger |-> NULL, conditions |-> <<>>,
       actions |-> <<[type |-> "add_tag", value |-> v],
                     [type |-> "add_tag", value |-> v]>>, enabled |-> TRUE] :
         v \in TagValues }
    \cup
    { [name |-> "tag_disabled", trigger |-> "ticket_updated",
       conditions |-> <<>>,
       actions |-> <<[type |-> "add_tag", value |-> "vip"]>>,
       enabled |-> FALSE] }

TagTickets ==
    { [WfTicket("open", "medium", "general", 1 * Hour, NoDate)
          EXCEPT !.tags = tags] :
         tags \in {<<>>, <<"billing">>, <<"billing", "vip">>} }

TagInit ==
    /\ now = WfStart
    /\ tickets \in [Tickets -> TagTickets]
    /\ sessions = [s \in Sessions |-> IdleSession]
    /\ notifications = <<>>
    /\ hist = NoHist
    /\ scan = NoScan
    /\ pin = NoInput
    /\ pout = NoOutput
    /\ wf = NoWf
    /\ esc = NoEsc

TagNext ==
    \/ \E ruleData \in TagRuleData : CreateCustomRule(ruleData)
    \/ \E t \in Tickets : ExecuteRules(t, "ticket_updated")
    \/ RuleStep(FALSE)
    \/ ExecuteRulesEnd

SpecTags == TagInit /\ [][TagNext]_vars

Occurrences(tags, v) == Cardinality({k \in 1 .. Len(tags) : tags[k] = v})

Without(tags, v) == SelectSeq(tags, LAMBDA x : x # v)

\* the tag the rule run in this step adds, NULL if it adds none
TagOfStep ==
    IF /\ wf.pc = "running" /\ wf.i <= Len(wf.rules)
       /\ wf.rules[wf.i].kind = "custom"
       /\ wf.rules[wf.i].actions # <<>>
       /\ wf.rules[wf.i].actions[1].type = "add_tag"
       /\ Len(wf'.ran) > Len(wf.ran)
    THEN Trim(wf.rules[wf.i].actions[1].value)
    ELSE NULL

\* C26: a run of the add_tag action, the first or a repeated one, leaves
\* exactly one occurrence of the tag in ticket.tags, keeps the other tags in
\* their order, and saves nothing (version unchanged) when the tag was there.
C26_AddTagIdempotent ==
    [][ TagOfStep # NULL =>
          LET t == wf.ticket
              v == TagOfStep
          IN  /\ Occurrences(tickets'[t].tags, v) = 1
              /\ Without(tickets'[t].tags, v) = Without(tickets[t].tags, v)
              /\ Occurrences(tickets[t].tags, v) = 1 =>
                    tickets'[t].version = tickets[t].version
      ]_vars

\* C27: executeRules never runs the action of a rule stored with
\* enabled = false, whatever the ticket and the trigger.
C27_DisabledRuleNeverRuns ==
    wf.pc = "running" =>
        \A j \in 1 .. Len(wf.ran) : wf.rules[wf.ran[j]].enabled

-----------------------------------------------------------------------------
(* SpecInterleave: one checkSLAStatus scan and one checkEscalations pass,  *)
(* no call failing, while the creator resolves a ticket through PATCH.      *)

MaxUserOps == 2

UserOp == hist.ops < MaxUserOps

\* due in 2 hours and assigned; overdue by 1 hour and unassigned
InterleaveTickets ==
    { MonTicket("user1", "agent1", "medium", MonStart - 70 * Hour),
      MonTicket("user1", NULL, "high", MonStart - 73 * Hour) }

InterleaveInit ==
    /\ now = MonStart
    /\ tickets \in [Tickets -> InterleaveTickets]
    /\ sessions = [s \in Sessions |-> IdleSession]
    /\ notifications = <<>>
    /\ hist = NoHist
    /\ scan = NoScan
    /\ pin = NoInput
    /\ pout = NoOutput
    /\ wf = NoWf
    /\ esc = NoEsc

InterleaveNext ==
    \/ ScanStart
    \/ \E k \in 0 .. 2 : HandleSLAWarning(k) /\ scan'.pc # "idle"
    \/ BreachFind
    \/ \E k \in 0 .. 3 : HandleSLABreach(k) /\ scan'.pc # "idle"
    \/ EscalatePriority("system")
    \/ EscalateNote("system")
    \/ EscalateNotify("system", Cardinality(ActiveAdmins))
    \/ BreachHandled
    \/ ScanEnd
    \/ EscalationStart
    \/ EscalationTake
    \/ EscalatePriority("hourly")
    \/ EscalateNote("hourly")
    \/ EscalateNotify("hourly", Cardinality(ActiveAdmins))
    \/ EscalationHandled
    \/ StaleFind
    \/ EscalationEnd
    \/ \E t \in Tickets : UserOp /\ ReadTicket("user1", t)
    \/ UserOp /\ PatchLoad("user1", [NoBody EXCEPT !.status = "resolved"])
    \/ PatchHandle("user1")

SpecInterleave == InterleaveInit /\ [][InterleaveNext]_vars

\* C28: the monitor acts on live tickets only.  A step that records an
\* sla_warning or sla_breach notification for a ticket, or that writes an
\* escalation (priority or internal note) to a ticket, is taken when the
\* stored status of the ticket is open or in_progress.
C28_MonitorActsOnLiveOnly ==
    [][ /\ \A k \in Len(notifications) + 1 .. Len(notifications') :
              notifications'[k].type \in {"sla_warning", "sla_breach"} =>
                  tickets[notifications'[k].ticket].status \in Live
        /\ \A t \in Tickets :
              ( \/ tickets'[t].priority # tickets[t].priority
                \/ Len(tickets'[t].internalNotes) > Len(tickets[t].internalNotes) )
              => tickets[t].status \in Live
      ]_vars

-----------------------------------------------------------------------------
(* Claims about the recipients of a firing, checked under SpecMonitor *)

\* C29: in one firing of notifySLAWarning or notifySLABreach every recipient
\* gets at most one notification for the ticket, also when the creator is
\* the assignee or the creator or the assignee is an active admin.
C29_OneNotificationPerRecipient ==
    \A i, j \in 1 .. Len(notifications) :
        ( /\ i < j
          /\ notifications[i].type \in {"sla_warning", "sla_breach"}
          /\ notifications[i].type = notifications[j].type
          /\ notifications[i].ticket = notifications[j].ticket
          /\ notifications[i].createdAt = notifications[j].createdAt )
        => notifications[i].user # notifications[j].user

-----------------------------------------------------------------------------
(* SpecStats: getSLAStats over stores of up to two tickets of every status, *)
(* read as the hours pass.                                                  *)

MaxStatTicks == 2

StatStart == 600 * Hour

StatTicket(status, due) ==
    [NoTicket EXCEPT
        !.exists = TRUE, !.status = status, !.createdBy = "user1",
        !.createdAt = StatStart - 80 * Hour, !.updatedAt = StatStart - 80 * Hour,
        !.dueDate = StatStart + due]

\* overdue, due in 90 minutes, due in 5 hours
StatTickets ==
    { NoTicket,
      StatTicket("open", -8 * Hour),
      StatTicket("open", 5 * Hour),
      StatTicket("in_progress", 90),
      StatTicket("resolved", -8 * Hour),
      StatTicket("closed", 5 * Hour),
      StatTicket("cancelled", -8 * Hour) }

StatInit ==
    /\ now = StatStart
    /\ tickets \in [Tickets -> StatTickets]
    /\ pin = NoInput
    /\ pout = [fn |-> "none", at |-> 0, result |-> NULL]
    /\ wf = NoWf
    /\ esc = NoEsc
    /\ sessions = [s \in Sessions |-> IdleSession]
    /\ notifications = <<>>
    /\ hist = NoHist
    /\ scan = NoScan

StatTick ==
    /\ now < StatStart + MaxStatTicks * 2 * Hour
    /\ now' = now + 2 * Hour
    /\ UNCHANGED <<tickets, sessions, notifications, hist, scan, pin, pout, wf, esc>>

\* the $match stage
StatMatched ==
    {t \in Tickets : /\ tickets[t].exists
                     /\ tickets[t].status \in
                            {"open", "in_progress", "resolved", "closed"}}

\* the $cond of the onTime sum
StatOnTime(doc, clock) ==
    \/ doc.status = "resolved"
    \/ doc.status = "closed"
    \/ doc.dueDate < clock

\* the $cond of the breached sum
StatBreached(doc, clock) ==
    /\ doc.status \in {"open", "in_progress"}
    /\ doc.dueDate < clock

\* the $cond of the warning sum
StatWarning(doc, clock) ==
    /\ doc.status \in {"open", "in_progress"}
    /\ doc.dueDate >= clock
    /\ doc.dueDate <= clock + 2 * Hour

\* Math.round of a / b times 100, for 0 <= a <= b and b > 0
RoundPercent(a, b) == (200 * a + b) \div (2 * b)

\* the result of getSLAStats at clock
getSLAStats(clock) ==
    LET totalTickets == Cardinality(StatMatched)
        onTime ==
            Cardinality({t \in StatMatched : StatOnTime(tickets[t], clock)})
        breached ==
            Cardinality({t \in StatMatched : StatBreached(tickets[t], clock)})
        warning ==
            Cardinality({t \in StatMatched : StatWarning(tickets[t], clock)})
    IN  [totalTickets |-> totalTickets, onTime |-> onTime,
         breached |-> breached, warning |-> warning,
         slaCompliance |-> IF totalTickets > 0
                           THEN RoundPercent(onTime, totalTickets) ELSE 100]

CallGetSLAStats ==
    /\ pout' = [fn |-> "getSLAStats", at |-> now, result |-> getSLAStats(now)]
    /\ UNCHANGED <<now, tickets, sessions, notifications, hist, scan, pin, wf, esc>>

StatNext ==
    \/ StatTick
    \/ CallGetSLAStats

SpecStats == StatInit /\ [][StatNext]_vars

\* the open and in_progress tickets with dueDate in the past at clock
OverdueLive(clock) ==
    {t \in Tickets : /\ tickets[t].exists
                     /\ tickets[t].status \in Live
                     /\ tickets[t].dueDate < clock}

\* C30: in the result of getSLAStats no ticket is counted both as onTime
\* and as breached: onTime + breached <= totalTickets, the overdue open and
\* in_progress tickets are counted in breached and not in onTime, and
\* slaCompliance lies between 0 and 100 and is 100 without tickets.
C30_OnTimeAndBreachedDisjoint ==
    pout.fn = "getSLAStats" =>
        LET r == pout.result
            overdue == Cardinality(OverdueLive(pout.at))
        IN  /\ r.onTime + r.breached <= r.totalTickets
            /\ r.breached >= overdue
            /\ r.onTime <= r.totalTickets - overdue
            /\ r.slaCompliance \in 0 .. 100
            /\ r.totalTickets = 0 => r.slaCompliance = 100

====
